---- MODULE Spec2Model ----
(***************************************************************************)
(* GroovTubeBle: the session state machine of the GroovTube Web Bluetooth  *)
(* library, with its Ticker, its cancellable wrapper and its calibration.  *)
(* One step of the model is one run-to-completion piece of the code: the   *)
(* part of an async function between two awaits.                           *)
(***************************************************************************)
EXTENDS Integers, Sequences, FiniteSets, Bags, TLC

\* ---- program constants ---------------------------------------------------
TICK_DELAY == 10
CONNECT_DELAY == 1000
INIT_DEADLINE == 10000
DISCONNECT_DEADLINE == 10000
WRITE_VALUE_DEADLINE == 1000
BREATH_RANGE == 2048
CALIBRATE_SAMPLES == 50
\* 0.025 as the fraction 1/40
DEFAULT_DEADZONE == <<1, 40>>

\* ---- bounds ----------------------------------------------------------------
\* calls of connect(), disconnect() and calibrate() that pass their state check in one run
MaxCommands == 3
\* calls of connect() and disconnect() that pass their state check in a run without calibrate()
MaxLongCommands == 4
\* frames that arrive while one calibration is pending
MaxSamples == 1
\* Date.now() when the instance is constructed
StartTime == 100000
\* transport operations that are pending at a time after their withAbortable() has rejected
MaxAbandoned == 1
\* calls of connect() and calibrate() in a run that collects all samples of a calibration
MaxCalCommands == 2
\* the same in a run in which calibrate() is called again
MaxRecalCommands == 3
\* calls of connect(), disconnect() and calibrate() in a run with a whole calibration
MaxResetCommands == 3
\* samples of one calibration that differ from the reading of a sensor at rest
MaxVaried == 1
\* calls of start() and stop() on a Ticker of its own
MaxTickerCommands == 4
\* calls of withAbortable() by a caller of its own
MaxAbortableCalls == 2

ReadyStates == {"no-device", "requesting-device", "have-device", "connecting", "ready"}

\* the instants at which the clock is observed
Offsets == {0, CONNECT_DELAY - TICK_DELAY, CONNECT_DELAY}
Instants == {StartTime + o : o \in Offsets}

\* the peripherals the user can pick; the second has no gatt server
Devices == {"dev1", "dev2"}
HasGatt(d) == d = "dev1"

\* the frames the peripheral sends (hex text)
Frames == {<<"8", "0", "0">>, <<"1", "0", "0", "0">>}
\* frames that are not the hex text of a number
MalformedFrames == {<<"z">>, <<"8", "z">>}

VARIABLES
    now,                     \* Date.now()
    readyState,              \* GroovTubeBle._readyState
    device,                  \* GroovTubeBle._device ("null" or a device)
    connectPromise,          \* GroovTubeBle._connectPromise (0 = null, else index in promises)
    connectAbortController,  \* GroovTubeBle._connectAbortController (0 = undefined, else index in aborted)
    lastConnectAttempt,      \* GroovTubeBle._lastConnectAttempt
    gattConnection,          \* GroovTubeBle._gattConnection is set
    breathValue,             \* GroovTubeBle._breathValue (Null or a number)
    calibration,             \* GroovTubeBle._calibration
    deadZone,                \* GroovTubeBle.deadZone
    started,                 \* Ticker._started
    scheduleToken,           \* Ticker._scheduleToken
    timerHandle,             \* Ticker._timerHandle (0 = null or a timer that has fired)
    pendingTick,             \* Ticker._pendingTick (0 = null or settled, else the token of that execution)
    timers,                  \* armed setTimeout timers of the Ticker
    ticks,                   \* executions of _tick waiting at an await
    promises,                \* the ExplicitPromise of every connect() call
    connectCalls,            \* the promise returned by every connect() call
    aborted,                 \* signal.aborted of every AbortController
    calPromises,             \* the ExplicitPromise of every calibrate() call
    calls,                   \* requestDevice()/disconnect() calls waiting at an await
    linkConnected,           \* BluetoothRemoteGATTServer.connected
    handlerInstalled,        \* melodySmartDataChar.oncharacteristicvaluechanged is set
    nCommands,               \* commands that passed their state check so far
    disconnected,            \* a disconnect() call has resolved and connect() was not called since
    abandoned,               \* transport operations still pending after their withAbortable() has rejected
    out                      \* what the last step emitted, called, resolved and rejected

vars == <<now, readyState, device, connectPromise, connectAbortController, lastConnectAttempt,
          gattConnection, breathValue, calibration, deadZone, started, scheduleToken, timerHandle,
          pendingTick, timers, ticks, promises, connectCalls, aborted, calPromises, calls,
          linkConnected, handlerInstalled, nCommands, disconnected, abandoned, out>>

sessionVars == <<readyState, device, connectPromise, connectAbortController, lastConnectAttempt,
                 gattConnection, breathValue, calibration, deadZone>>
tickerVars == <<started, scheduleToken, timerHandle, pendingTick, timers, ticks>>
promiseVars == <<promises, connectCalls, aborted, calPromises>>

\* ---- observable outputs ------------------------------------------------------
Ev(ev, op, err, msg, cause, k) ==
    [ev |-> ev, op |-> op, err |-> err, msg |-> msg, cause |-> cause, k |-> k]
\* _emit('readyStateChange', s)
RSC(s) == Ev("readyStateChange", s, "", "", "", 0)
\* _emit('error', new GroovTubeBleError(msg, cause))
ErrEv(msg, cause) == Ev("error", "", "GroovTubeBleError", msg, cause, 0)
\* _emit('breath', value)
BreathEv == Ev("breath", "", "", "", "", 0)
\* a call of a transport operation
Call(op) == Ev("call", op, "", "", "", 0)
\* the promise of a command settles
Resolved(op, k) == Ev("resolve", op, "", "", "", k)
Rejected(op, k, err, msg, cause) == Ev("reject", op, err, msg, cause, k)

\* ---- readyState.ts -------------------------------------------------------------
\* a table that also lets a device appear without a request
isReadyStateTransitionOkLoose(o, n) ==
    \/ (o = "no-device" /\ n \in {"requesting-device", "have-device"})
    \/ (o = "requesting-device" /\ n \in {"no-device", "have-device"})
    \/ (o = "have-device" /\ n \in {"connecting", "requesting-device"})
    \/ (o = "connecting" /\ n \in {"have-device", "ready"})
    \/ (o = "ready" /\ n \in {"connecting", "have-device"})

isReadyStateTransitionOk(o, n) ==
    \/ (o = "no-device" /\ n = "requesting-device")
    \/ (o = "requesting-device" /\ n = "no-device")
    \/ (o = "requesting-device" /\ n = "have-device")
    \/ (o = "have-device" /\ n = "connecting")
    \/ (o = "have-device" /\ n = "requesting-device")
    \/ (o = "connecting" /\ n = "have-device")
    \/ (o = "connecting" /\ n = "ready")
    \/ (o = "ready" /\ n = "connecting")
    \/ (o = "ready" /\ n = "have-device")

canRequestDevice == readyState = "no-device" \/ readyState = "have-device"
canConnect == readyState = "have-device"
canDisconnect == readyState = "connecting" \/ readyState = "ready"

InvalidTransition == "Invalid transition of readyState"

\* numbers: null, NaN, or the fraction n/d in lowest terms with d > 0
Null == [kind |-> "null", n |-> 0, d |-> 1]
NaN == [kind |-> "nan", n |-> 0, d |-> 1]
Abs(x) == IF x < 0 THEN -x ELSE x
\* Math.sign
Sign(x) == IF x > 0 THEN 1 ELSE IF x < 0 THEN -1 ELSE 0
RECURSIVE GCD(_, _)
GCD(a, b) == IF b = 0 THEN a ELSE GCD(b, a % b)
Frac(n, d) ==
    LET g == GCD(Abs(n), Abs(d))
    IN  [kind |-> "num", n |-> (Sign(d) * n) \div g, d |-> Abs(d) \div g]
Int2Num(i) == [kind |-> "num", n |-> i, d |-> 1]

\* an _updateReadyState that forgets to clear the breath value
updateReadyStateKeepsBreath(o, bv, n) ==
    IF isReadyStateTransitionOk(o, n)
    THEN [ok |-> TRUE, rs |-> n, bv |-> bv, evs |-> <<RSC(n)>>]
    ELSE [ok |-> FALSE, rs |-> o, bv |-> bv, evs |-> <<>>]

\* _updateReadyState(newReadyState) from readyState o with breathValue bv:
\* what it leaves behind, what it emits, and whether it returned (ok) or threw
updateReadyState(o, bv, n) ==
    IF isReadyStateTransitionOk(o, n)
    THEN [ok |-> TRUE, rs |-> n, bv |-> Null, evs |-> <<RSC(n)>>]
    ELSE [ok |-> FALSE, rs |-> o, bv |-> bv, evs |-> <<>>]

\* ExplicitPromise.resolve / reject: a settled promise stays as it is
Settle(ps, k, to) == IF k # 0 /\ ps[k] = "pending" THEN [ps EXCEPT ![k] = to] ELSE ps

\* Symbol('scheduleToken') and setTimeout handles: a value no live reference holds
Fresh(used) == CHOOSE n \in 1..(Cardinality(used) + 1) : n \notin used /\ \A m \in 1..(n - 1) : m \in used
LiveTokens ==
    {scheduleToken, pendingTick} \cup {t.token : t \in ticks} \cup {c.p : c \in BagToSet(calls)}
        \cup {a.token : a \in abandoned}
LiveTimers == {timerHandle} \cup {t.id : t \in timers}

\* the calls of op that wait at an await
InFlight(op) == BagCardinality([c \in {d \in BagToSet(calls) : d.op = op} |-> calls[c]])
\* a call at an await: p is the execution a stop() waits for, called tells that gatt.disconnect()
\* has been called, mid that disconnect() was called while a connection attempt was at one
\* of its steps
CallAt(op, pc, p, called, mid) == [op |-> op, pc |-> pc, p |-> p, called |-> called, mid |-> mid]

Init ==
    /\ now = StartTime
    /\ readyState = "no-device"
    /\ device = "null"
    /\ connectPromise = 0
    /\ connectAbortController = 0
    /\ lastConnectAttempt = 0
    /\ gattConnection = FALSE
    /\ breathValue = Null
    /\ calibration = [samples |-> <<>>, mean |-> Int2Num(0), promise |-> 0]
    /\ deadZone = DEFAULT_DEADZONE
    /\ started = FALSE
    /\ scheduleToken = 1
    /\ timerHandle = 0
    /\ pendingTick = 0
    /\ timers = {}
    /\ ticks = {}
    /\ promises = <<>>
    /\ connectCalls = <<>>
    /\ aborted = <<>>
    /\ calPromises = <<>>
    /\ calls = EmptyBag
    /\ linkConnected = FALSE
    /\ handlerInstalled = FALSE
    /\ nCommands = 0
    /\ disconnected = FALSE
    /\ abandoned = {}
    /\ out = <<>>

\* time passes
AdvanceTime ==
    /\ \E t \in Instants : t > now /\ now' = t
    /\ out' = <<>>
    /\ UNCHANGED <<sessionVars, tickerVars, promiseVars, calls, linkConnected, handlerInstalled, nCommands, disconnected, abandoned>>

\* an _abortCalibration that never resets the offset
abortCalibrationKeeps(cal, resetCalibration) ==
    [samples |-> <<>>, mean |-> cal.mean, promise |-> 0]

\* an abort that leaves the collected samples in place
abortCalibrationKeepsSamples(cal, resetCalibration) ==
    [samples |-> cal.samples, mean |-> IF resetCalibration THEN Int2Num(0) ELSE cal.mean, promise |-> 0]

\* _abortCalibration(reason, resetCalibration): the calibration it leaves behind
abortCalibration(cal, resetCalibration) ==
    [samples |-> <<>>, mean |-> IF resetCalibration THEN Int2Num(0) ELSE cal.mean, promise |-> 0]

\* the rejection _abortCalibration delivers to a pending calibrate()
abortCalibrationEvs(cal, reason) ==
    IF cal.promise # 0 /\ calPromises[cal.promise] = "pending"
    THEN <<Rejected("calibrate", cal.promise, "GroovTubeBleError", "Calibration aborted: " \o reason, "")>>
    ELSE <<>>

\* requestDevice() up to the await of bluetooth.requestDevice()
RequestDevice ==
    /\ IF ~canRequestDevice
       THEN /\ out' = <<Rejected("requestDevice", 0, "GroovTubeBleError",
                                 "requestDevice(): Already got a device or busy requesting one", "")>>
            /\ UNCHANGED <<sessionVars, promiseVars, calls>>
       ELSE LET u == updateReadyState(readyState, breathValue, "requesting-device")
                ab == abortCalibrationEvs(calibration, "requestDevice() has been called")
            IN  /\ device' = "null"
                /\ calibration' = abortCalibration(calibration, TRUE)
                /\ calPromises' = Settle(calPromises, calibration.promise, "rejected")
                /\ readyState' = u.rs
                /\ breathValue' = u.bv
                /\ IF u.ok
                   THEN /\ out' = ab \o u.evs \o <<Call("bluetooth.requestDevice")>>
                        /\ calls' = calls (+) SetToBag({CallAt("requestDevice", "awaitDevice", 0, TRUE, FALSE)})
                   ELSE /\ out' = ab \o <<Rejected("requestDevice", 0, "GroovTubeBleError", InvalidTransition, "")>>
                        /\ calls' = calls
                /\ UNCHANGED <<connectPromise, connectAbortController, lastConnectAttempt, gattConnection,
                               deadZone, promises, connectCalls, aborted>>
    /\ UNCHANGED <<now, tickerVars, linkConnected, handlerInstalled, nCommands, disconnected, abandoned>>

\* requestDevice() after the await: the selection failed ("fail") or produced device res
RequestDeviceSettle(c, res) ==
    /\ BagIn(c, calls) /\ c.op = "requestDevice"
    /\ calls' = calls (-) SetToBag({c})
    /\ IF res = "fail" \/ ~HasGatt(res)
       THEN LET u == updateReadyState(readyState, breathValue, "no-device")
            IN  /\ readyState' = u.rs
                /\ breathValue' = u.bv
                /\ device' = device
                /\ out' = u.evs \o
                      (IF ~u.ok
                       THEN <<Rejected("requestDevice", 0, "GroovTubeBleError", InvalidTransition, "")>>
                       ELSE IF res = "fail"
                       THEN <<Rejected("requestDevice", 0, "GroovTubeBleError",
                                       "requestDevice(): Failed to request device", "TransportError")>>
                       ELSE <<Rejected("requestDevice", 0, "GroovTubeBleError",
                                       "requestDevice(): Found device has no gatt server set", "")>>)
       ELSE LET u == updateReadyState(readyState, breathValue, "have-device")
            IN  /\ device' = res
                /\ readyState' = u.rs
                /\ breathValue' = u.bv
                /\ out' = u.evs \o
                      (IF u.ok
                       THEN <<Resolved("requestDevice", 0)>>
                       ELSE <<Rejected("requestDevice", 0, "GroovTubeBleError", InvalidTransition, "")>>)
    /\ UNCHANGED <<now, connectPromise, connectAbortController, lastConnectAttempt, gattConnection,
                   calibration, deadZone, tickerVars, promiseVars, linkConnected, handlerInstalled, nCommands, disconnected, abandoned>>

\* ---- _tick ---------------------------------------------------------------------
TickMsg == "Error during tick"

\* _tick(t) up to its first await, entered with _device dev, readyState rs, breathValue bv,
\* _lastConnectAttempt last and _connectAbortController ctl
tickSyncOn(dev, rs, bv, last, ctl, t) ==
    LET base == [rs |-> rs, bv |-> bv, last |-> last, evs |-> <<>>, pc |-> "done", sig |-> 0]
    IN
    IF rs = "no-device" \/ rs = "requesting-device"
    THEN [base EXCEPT !.evs = <<Ev("error", "_tick(): Invalid readyState", "GroovTubeBleError", TickMsg,
                                   "GroovTubeBleError", 0)>>]
    ELSE IF dev = "null"
    THEN [base EXCEPT !.evs = <<ErrEv(TickMsg, "TypeError")>>]
    ELSE IF rs = "ready" /\ ~(gattConnection /\ linkConnected)
    THEN LET u == updateReadyState(rs, bv, "connecting")
         IN  [base EXCEPT !.rs = u.rs, !.bv = u.bv,
                          !.evs = IF u.ok THEN u.evs
                                  ELSE <<Ev("error", InvalidTransition, "GroovTubeBleError", TickMsg,
                                            "GroovTubeBleError", 0)>>]
    ELSE IF rs = "connecting" /\ t - last >= CONNECT_DELAY
    THEN IF ctl = 0
         THEN [base EXCEPT !.last = t, !.evs = <<ErrEv(TickMsg, "TypeError")>>]
         ELSE [base EXCEPT !.last = t, !.evs = <<Call("gatt.connect")>>, !.pc = "awaitConnect", !.sig = ctl]
    ELSE IF rs = "ready"
    THEN IF ctl = 0
         THEN [base EXCEPT !.evs = <<ErrEv(TickMsg, "TypeError")>>]
         ELSE [base EXCEPT !.evs = <<Call("writeValueWithResponse")>>, !.pc = "awaitWrite", !.sig = ctl]
    ELSE base

\* _tick(t) up to its first await with the device that is stored
tickSync(rs, bv, last, ctl, t) == tickSyncOn(device, rs, bv, last, ctl, t)

\* _schedule() with the fresh token tk, after the callback ran up to its first await (s):
\* an execution that has not settled is the pending tick; one that settled at once
\* arms the next timer in its then()
scheduledPending(tk, s) == IF s.pc = "done" THEN 0 ELSE tk
\* (re notes that the execution began while _gattConnection was set: what it attempts is a
\* reconnection)
scheduledTicks(tk, s) ==
    IF s.pc = "done" THEN ticks
    ELSE ticks \cup {[token |-> tk, pc |-> s.pc, sig |-> s.sig, re |-> gattConnection]}
scheduledHandle(tms, th, s) ==
    IF s.pc = "done" THEN Fresh({th} \cup {tm.id : tm \in tms}) ELSE th
scheduledTimers(tms, th, s) ==
    IF s.pc = "done" THEN tms \cup {[id |-> scheduledHandle(tms, th, s), due |-> now + TICK_DELAY]} ELSE tms

\* connect() up to its await
ConnectB(maxCommands) ==
    /\ ~canConnect \/ nCommands < maxCommands
    /\ nCommands' = IF canConnect THEN nCommands + 1 ELSE nCommands
    /\ disconnected' = (disconnected /\ ~canConnect)
    /\ IF ~canConnect
       THEN /\ out' = <<Rejected("connect", 0, "GroovTubeBleError",
                                 IF readyState = "no-device" THEN "connect(): Must call requestDevice() first"
                                 ELSE "connect(): Invalid state", "")>>
            /\ UNCHANGED <<sessionVars, tickerVars, promiseVars>>
       ELSE LET u == updateReadyState(readyState, breathValue, "connecting")
                k == Len(promises) + 1
                tk == Fresh(LiveTokens)
                s == tickSync(u.rs, u.bv, 0, k, now)
            IN  IF ~u.ok
                THEN /\ out' = <<Rejected("connect", 0, "GroovTubeBleError", InvalidTransition, "")>>
                     /\ UNCHANGED <<sessionVars, tickerVars, promiseVars>>
                ELSE /\ connectPromise' = k
                     /\ connectAbortController' = k
                     /\ promises' = Append(promises, "pending")
                     /\ aborted' = Append(aborted, FALSE)
                     /\ IF started
                        THEN \* Ticker.start() throws
                             /\ connectCalls' = Append(connectCalls, "rejected")
                             /\ readyState' = u.rs
                             /\ breathValue' = u.bv
                             /\ lastConnectAttempt' = 0
                             /\ out' = u.evs \o <<Rejected("connect", k, "Error",
                                                           "Ticker has already been started", "")>>
                             /\ UNCHANGED tickerVars
                        ELSE \* Ticker.start() and the first _schedule()
                             /\ connectCalls' = Append(connectCalls, "pending")
                             /\ started' = TRUE
                             /\ scheduleToken' = tk
                             /\ pendingTick' = scheduledPending(tk, s)
                             /\ ticks' = scheduledTicks(tk, s)
                             /\ timers' = scheduledTimers(timers, timerHandle, s)
                             /\ timerHandle' = scheduledHandle(timers, timerHandle, s)
                             /\ readyState' = s.rs
                             /\ breathValue' = s.bv
                             /\ lastConnectAttempt' = s.last
                             /\ out' = u.evs \o s.evs
                     /\ UNCHANGED <<device, gattConnection, calibration, deadZone, calPromises>>
    /\ UNCHANGED <<now, calls, linkConnected, handlerInstalled, abandoned>>

\* the Ticker's timer fires: _schedule()
TimerFire(tm) ==
    /\ tm \in timers
    /\ now >= tm.due
    /\ LET tk == Fresh(LiveTokens)
           s == tickSync(readyState, breathValue, lastConnectAttempt, connectAbortController, now)
           th == IF timerHandle = tm.id THEN 0 ELSE timerHandle
       IN  /\ scheduleToken' = tk
           /\ pendingTick' = scheduledPending(tk, s)
           /\ ticks' = scheduledTicks(tk, s)
           /\ timers' = scheduledTimers(timers \ {tm}, th, s)
           /\ timerHandle' = scheduledHandle(timers \ {tm}, th, s)
           /\ readyState' = s.rs
           /\ breathValue' = s.bv
           /\ lastConnectAttempt' = s.last
           /\ out' = s.evs
    /\ UNCHANGED <<now, device, connectPromise, connectAbortController, gattConnection, calibration,
                   deadZone, started, promiseVars, calls, linkConnected, handlerInstalled, nCommands, disconnected, abandoned>>

\* the calls after the execution with token tk has settled: the stop() calls that wait for it go on
goesOn(cs, tk, mid) ==
    LET waiting == CallAt("disconnect", "awaitStop", tk, FALSE, mid)
        free == CallAt("disconnect", "awaitStop", 0, FALSE, mid)
        n == CopiesIn(waiting, cs)
    IN  IF n = 0 THEN cs
        ELSE (cs (-) [c \in {waiting} |-> n]) (+) [c \in {free} |-> n]
stopsGoOn(tk) == goesOn(goesOn(calls, tk, FALSE), tk, TRUE)

\* a then() of _schedule that never arms the next timer
TickSettlesOnce(t) ==
    /\ ticks' = ticks \ {t}
    /\ UNCHANGED <<timers, timerHandle>>
    /\ pendingTick' = IF pendingTick = t.token THEN 0 ELSE pendingTick
    /\ calls' = stopsGoOn(t.token)
    /\ UNCHANGED <<started, scheduleToken>>

\* a then() of _schedule that arms the next timer whatever the token
TickSettlesAnyToken(t) ==
    /\ ticks' = ticks \ {t}
    /\ timerHandle' = Fresh(LiveTimers)
    /\ timers' = timers \cup {[id |-> Fresh(LiveTimers), due |-> now + TICK_DELAY]}
    /\ pendingTick' = IF pendingTick = t.token THEN 0 ELSE pendingTick
    /\ calls' = stopsGoOn(t.token)
    /\ UNCHANGED <<started, scheduleToken>>

\* execution t settles: the then() of _schedule arms the next timer unless the token has changed;
\* a stop() that waits for this execution can go on
TickSettles(t) ==
    /\ ticks' = ticks \ {t}
    /\ IF t.token = scheduleToken
       THEN /\ timerHandle' = Fresh(LiveTimers)
            /\ timers' = timers \cup {[id |-> Fresh(LiveTimers), due |-> now + TICK_DELAY]}
       ELSE UNCHANGED <<timers, timerHandle>>
    /\ pendingTick' = IF pendingTick = t.token THEN 0 ELSE pendingTick
    /\ calls' = stopsGoOn(t.token)
    /\ UNCHANGED <<started, scheduleToken>>

\* execution t moves on to its next await
tickAt(t, pc) == (ticks \ {t}) \cup {[t EXCEPT !.pc = pc]}

AwaitPcs == {"awaitConnect", "awaitService", "awaitChar", "awaitNotif", "awaitWrite"}

\* the deadline of the withAbortable() the execution waits in (0 = none)
deadlineOf(pc) ==
    IF pc \in {"awaitService", "awaitChar", "awaitNotif"} THEN INIT_DEADLINE
    ELSE IF pc = "awaitWrite" THEN WRITE_VALUE_DEADLINE
    ELSE 0

\* withAbortable() rejects with an AbortError: the signal has fired, or the operation takes
\* longer than the deadline (the deadlines are longer than the instants the clock tells apart:
\* that an operation takes that long is a choice of the environment)
abortableRejects(t, timedOut) ==
    \/ ~timedOut /\ aborted[t.sig]
    \/ timedOut /\ deadlineOf(t.pc) # 0 /\ ~aborted[t.sig]

\* the catch block of _tick after withAbortable() rejected with an AbortError; the transport
\* operation the execution waited for is not terminated (keep: the model follows it further)
TickAbortedB(t, timedOut, keep) ==
    /\ t \in ticks
    /\ t.pc \in AwaitPcs
    /\ abortableRejects(t, timedOut)
    /\ TickSettles(t)
    /\ abandoned' = IF keep THEN abandoned \cup {t} ELSE abandoned
    /\ out' = <<ErrEv(TickMsg, "AbortError")>>
    /\ UNCHANGED <<now, sessionVars, promiseVars, linkConnected, handlerInstalled, nCommands, disconnected>>

TickAborted(t, timedOut) == TickAbortedB(t, timedOut, FALSE)
\* the abandoned operations are followed, MaxAbandoned at a time
TickAbandons(t, timedOut) == TickAbortedB(t, timedOut, Cardinality(abandoned) < MaxAbandoned)

\* the callback of withAbortable() goes on when the operation of an abandoned execution
\* settles: an operation that was awaited through abortable() has lost its race, the callback
\* has thrown and takes no further step; after gatt.connect(), startNotifications() and
\* writeValueWithResponse() the callback only returns
lateResultGoesOn(a) == FALSE

\* a late result that settles the promise of withAbortable() again
LateResultSettles(a, ok) ==
    /\ a \in abandoned
    /\ abandoned' = abandoned \ {a}
    /\ promises' = [promises EXCEPT ![a.token] = IF ok THEN "fulfilled" ELSE "rejected"]
    /\ out' = <<IF ok THEN Resolved("withAbortable", a.token)
                ELSE Rejected("withAbortable", a.token, "TransportError", "", "")>>
    /\ UNCHANGED <<now, sessionVars, tickerVars, connectCalls, aborted, calPromises, calls, linkConnected,
                   handlerInstalled, nCommands, disconnected>>

\* the result of an abandoned operation arrives: Promise.race() of withAbortable() has
\* settled before, what the callback returns or throws is dropped
LateResult(a, ok) ==
    /\ a \in abandoned
    /\ abandoned' = abandoned \ {a}
    /\ linkConnected' = IF a.pc = "awaitConnect" /\ ok THEN TRUE ELSE linkConnected
    /\ ticks' = IF lateResultGoesOn(a) THEN ticks \cup {a} ELSE ticks
    /\ out' = <<>>
    /\ UNCHANGED <<now, sessionVars, started, scheduleToken, timerHandle, pendingTick, timers,
                   promiseVars, calls, handlerInstalled, nCommands, disconnected>>

\* the catch block of _tick after the transport operation it waits for has failed
TickTransportFails(t) ==
    /\ t \in ticks
    /\ t.pc \in AwaitPcs
    /\ ~aborted[t.sig]
    /\ TickSettles(t)
    /\ out' = <<ErrEv(TickMsg, "TransportError")>>
    /\ UNCHANGED <<now, sessionVars, promiseVars, linkConnected, handlerInstalled, nCommands, disconnected, abandoned>>

\* gatt.connect() has resolved: the second withAbortable() starts with getPrimaryService()
GattConnected(t) ==
    /\ t \in ticks
    /\ t.pc = "awaitConnect"
    /\ ~aborted[t.sig]
    /\ linkConnected' = TRUE
    /\ ticks' = tickAt(t, "awaitService")
    /\ out' = <<Call("getPrimaryService")>>
    /\ UNCHANGED <<now, sessionVars, started, scheduleToken, timerHandle, pendingTick, timers,
                   promiseVars, calls, handlerInstalled, nCommands, disconnected, abandoned>>

\* getPrimaryService() has resolved: getCharacteristic()
ServiceFound(t) ==
    /\ t \in ticks
    /\ t.pc = "awaitService"
    /\ ~aborted[t.sig]
    /\ ticks' = tickAt(t, "awaitChar")
    /\ out' = <<Call("getCharacteristic")>>
    /\ UNCHANGED <<now, sessionVars, started, scheduleToken, timerHandle, pendingTick, timers,
                   promiseVars, calls, linkConnected, handlerInstalled, nCommands, disconnected, abandoned>>

\* getCharacteristic() has resolved: the handler is installed, startNotifications()
CharacteristicFound(t) ==
    /\ t \in ticks
    /\ t.pc = "awaitChar"
    /\ ~aborted[t.sig]
    /\ handlerInstalled' = TRUE
    /\ ticks' = tickAt(t, "awaitNotif")
    /\ out' = <<Call("startNotifications")>>
    /\ UNCHANGED <<now, sessionVars, started, scheduleToken, timerHandle, pendingTick, timers,
                   promiseVars, calls, linkConnected, nCommands, disconnected, abandoned>>

\* resolve() of the current _connectPromise, followed by the connect() call that awaits it
resolveConnect(k) == Settle(promises, k, "fulfilled")
resolveConnectCalls(k) ==
    IF k # 0 /\ promises[k] = "pending" THEN Settle(connectCalls, k, "fulfilled") ELSE connectCalls
resolveConnectEvs(k) ==
    IF k # 0 /\ promises[k] = "pending" /\ connectCalls[k] = "pending"
    THEN <<Resolved("connect", k)>> ELSE <<>>

\* a completed attempt that starts the collection of samples afresh
NotificationsStartedRestarts(t) ==
    /\ t \in ticks
    /\ t.pc = "awaitNotif"
    /\ ~aborted[t.sig]
    /\ gattConnection' = TRUE
    /\ TickSettles(t)
    /\ calibration' = [calibration EXCEPT !.samples = <<>>]
    /\ LET u == updateReadyState(readyState, breathValue, "ready")
       IN  /\ readyState' = u.rs
           /\ breathValue' = u.bv
           /\ IF u.ok
              THEN /\ promises' = resolveConnect(connectPromise)
                   /\ connectCalls' = resolveConnectCalls(connectPromise)
                   /\ out' = u.evs \o resolveConnectEvs(connectPromise)
              ELSE /\ out' = <<Ev("error", InvalidTransition, "GroovTubeBleError", TickMsg,
                                  "GroovTubeBleError", 0)>>
                   /\ UNCHANGED <<promises, connectCalls>>
    /\ UNCHANGED <<now, device, connectPromise, connectAbortController, lastConnectAttempt,
                   deadZone, aborted, calPromises, linkConnected, handlerInstalled, nCommands, disconnected, abandoned>>

\* startNotifications() has resolved: the attempt is complete
NotificationsStarted(t) ==
    /\ t \in ticks
    /\ t.pc = "awaitNotif"
    /\ ~aborted[t.sig]
    /\ gattConnection' = TRUE
    /\ TickSettles(t)
    /\ LET u == updateReadyState(readyState, breathValue, "ready")
       IN  /\ readyState' = u.rs
           /\ breathValue' = u.bv
           /\ IF u.ok
              THEN /\ promises' = resolveConnect(connectPromise)
                   /\ connectCalls' = resolveConnectCalls(connectPromise)
                   /\ out' = u.evs \o resolveConnectEvs(connectPromise)
              ELSE /\ out' = <<Ev("error", InvalidTransition, "GroovTubeBleError", TickMsg,
                                  "GroovTubeBleError", 0)>>
                   /\ UNCHANGED <<promises, connectCalls>>
    /\ UNCHANGED <<now, device, connectPromise, connectAbortController, lastConnectAttempt, calibration,
                   deadZone, aborted, calPromises, linkConnected, handlerInstalled, nCommands, disconnected, abandoned>>

\* writeValueWithResponse() has resolved
ValueWritten(t) ==
    /\ t \in ticks
    /\ t.pc = "awaitWrite"
    /\ ~aborted[t.sig]
    /\ TickSettles(t)
    /\ out' = <<>>
    /\ UNCHANGED <<now, sessionVars, promiseVars, linkConnected, handlerInstalled, nCommands, disconnected, abandoned>>

\* the peripheral goes out of range
LinkLost ==
    /\ linkConnected
    /\ linkConnected' = FALSE
    /\ out' = <<>>
    /\ UNCHANGED <<now, sessionVars, tickerVars, promiseVars, calls, handlerInstalled, nCommands, disconnected, abandoned>>

\* ---- disconnect ----------------------------------------------------------------
\* the steps of a connection attempt at which a disconnect() can find it
AttemptPcs == {"awaitConnect", "awaitService", "awaitChar"}
attemptInFlight == \E t \in ticks : t.pc \in AttemptPcs

\* the 'abort' listener of connect(): it runs when the controller aborts for the first time
rejectConnect(k) == IF aborted[k] THEN promises ELSE Settle(promises, k, "rejected")
rejectConnectCalls(k) ==
    IF ~aborted[k] /\ promises[k] = "pending" THEN Settle(connectCalls, k, "rejected") ELSE connectCalls
rejectConnectEvs(k) ==
    IF ~aborted[k] /\ promises[k] = "pending" /\ connectCalls[k] = "pending"
    THEN <<Rejected("connect", k, "GroovTubeBleError", "disconnect() has been requested", "")>>
    ELSE <<>>

\* a stop() that has nothing left to wait for: its continuation is a microtask, which runs
\* before any timer and any result of the transport, but not before what the caller does in
\* the same task
StopContinues == \E c \in BagToSet(calls) : c.op = "disconnect" /\ c.pc = "awaitStop" /\ c.p = 0

\* disconnect() up to the await in Ticker.stop(). The 'abort' listener rejects the promise that
\* connect() awaits; connect() itself rejects in the microtask after that, which is later than
\* the continuation of a stop() that is queued already ("rejecting" until then)
DisconnectB(maxCommands) ==
    /\ ~canDisconnect \/ nCommands < maxCommands
    /\ nCommands' = IF canDisconnect THEN nCommands + 1 ELSE nCommands
    /\ UNCHANGED disconnected
    /\ IF ~canDisconnect
       THEN /\ out' = <<Rejected("disconnect", 0, "GroovTubeBleError", "disconnect(): Invalid state", "")>>
            /\ UNCHANGED <<sessionVars, tickerVars, promiseVars, calls>>
       ELSE IF connectAbortController = 0
       THEN /\ out' = <<Rejected("disconnect", 0, "TypeError", "", "")>>
            /\ UNCHANGED <<sessionVars, tickerVars, promiseVars, calls>>
       ELSE LET k == connectAbortController
            IN  /\ aborted' = [aborted EXCEPT ![k] = TRUE]
                /\ promises' = rejectConnect(k)
                /\ connectCalls' = IF StopContinues /\ rejectConnectEvs(k) # <<>>
                                   THEN [connectCalls EXCEPT ![k] = "rejecting"]
                                   ELSE rejectConnectCalls(k)
                /\ calibration' = abortCalibration(calibration, FALSE)
                /\ calPromises' = Settle(calPromises, calibration.promise, "rejected")
                \* Ticker.stop(): a new token, the armed timer is cleared
                /\ scheduleToken' = Fresh(LiveTokens)
                /\ timers' = {tm \in timers : tm.id # timerHandle}
                /\ timerHandle' = 0
                /\ calls' = calls (+) SetToBag({CallAt("disconnect", "awaitStop", pendingTick, FALSE,
                                                        attemptInFlight)})
                /\ out' = (IF StopContinues THEN <<>> ELSE rejectConnectEvs(k))
                          \o abortCalibrationEvs(calibration, "disconnect() has been called")
                /\ UNCHANGED <<readyState, device, connectPromise, connectAbortController,
                               lastConnectAttempt, gattConnection, breathValue, deadZone, started,
                               pendingTick, ticks>>
    /\ UNCHANGED <<now, linkConnected, handlerInstalled, abandoned>>

\* Ticker.stop() after its await, and disconnect() up to the await of gatt.disconnect(); then
\* the connect() calls reject whose promise was rejected since this continuation was queued
TickerStopped(c) ==
    /\ BagIn(c, calls) /\ c.op = "disconnect" /\ c.pc = "awaitStop"
    /\ c.p = 0
    /\ pendingTick' = 0
    /\ started' = FALSE
    /\ calls' = (calls (-) SetToBag({c})) (+)
                 SetToBag({CallAt("disconnect", "awaitGatt", 0, device # "null", c.mid)})
    /\ connectCalls' = [k \in DOMAIN connectCalls |->
                            IF connectCalls[k] = "rejecting" THEN "rejected" ELSE connectCalls[k]]
    /\ out' = (IF device # "null" THEN <<Call("gatt.disconnect")>> ELSE <<>>)
              \o LET R == {k \in DOMAIN connectCalls : connectCalls[k] = "rejecting"}
                 IN  [i \in 1..Cardinality(R) |->
                         Rejected("connect", CHOOSE k \in R : Cardinality({j \in R : j < k}) = i - 1,
                                  "GroovTubeBleError", "disconnect() has been requested", "")]
    /\ UNCHANGED <<now, sessionVars, scheduleToken, timerHandle, timers, ticks, promises, aborted,
                   calPromises, linkConnected, handlerInstalled, nCommands, disconnected, abandoned>>

\* the finally block of disconnect(): gatt.disconnect() resolved ("ok"), rejected ("fail")
\* or did not settle within DISCONNECT_DEADLINE ("timeout")
DisconnectSettle(c, res) ==
    /\ BagIn(c, calls) /\ c.op = "disconnect" /\ c.pc = "awaitGatt"
    /\ res \in {"fail", "timeout"} => c.called
    /\ calls' = calls (-) SetToBag({c})
    /\ gattConnection' = FALSE
    /\ linkConnected' = IF res = "ok" /\ c.called THEN FALSE ELSE linkConnected
    /\ LET u == updateReadyState(readyState, breathValue, "have-device")
       IN  /\ readyState' = u.rs
           /\ breathValue' = u.bv
           /\ out' = u.evs \o
                 (IF ~u.ok
                  THEN <<Rejected("disconnect", 0, "GroovTubeBleError", InvalidTransition, "")>>
                  ELSE IF res = "ok" THEN <<Resolved("disconnect", 0)>>
                  ELSE IF res = "fail" THEN <<Rejected("disconnect", 0, "TransportError", "", "")>>
                  ELSE <<Rejected("disconnect", 0, "AbortError", "", "")>>)
           /\ disconnected' = (disconnected \/ (u.ok /\ res = "ok"))
    /\ UNCHANGED <<now, device, connectPromise, connectAbortController, lastConnectAttempt, calibration,
                   deadZone, tickerVars, promiseVars, handlerInstalled, nCommands, abandoned>>

\* ---- math.ts ---------------------------------------------------------------------
HexDigits == <<"0", "1", "2", "3", "4", "5", "6", "7", "8", "9", "a", "b", "c", "d", "e", "f">>
UpperHex == <<"0", "1", "2", "3", "4", "5", "6", "7", "8", "9", "A", "B", "C", "D", "E", "F">>
IsHex(ch) == \E i \in 1..16 : HexDigits[i] = ch \/ UpperHex[i] = ch
HexVal(ch) == (CHOOSE i \in 1..16 : HexDigits[i] = ch \/ UpperHex[i] = ch) - 1

\* the value of the longest prefix of hex digits of s, after the digits read so far (acc)
RECURSIVE hexPrefix(_, _)
hexPrefix(s, acc) ==
    IF s = <<>> \/ ~IsHex(Head(s)) THEN acc ELSE hexPrefix(Tail(s), acc * 16 + HexVal(Head(s)))

\* parseInt(hexString, 16): leading white space is skipped, then a sign, then a "0x" or "0X";
\* the value is that of the hex digits that follow, up to the first other character, with the
\* sign; NaN when no hex digit follows. String.fromCharCode gives one character per byte, so
\* the white space of a frame is one of the bytes 0x09 to 0x0D, 0x20 and 0xA0; the vertical tab
\* (0x0B) and the no-break space (0xA0) are written as the characters themselves.
parseInt16(s) ==
    LET WhiteSpace == {" ", "\t", "\n", "", "\f", "\r", " "}
        RECURSIVE trimStart(_)
        trimStart(x) == IF x # <<>> /\ Head(x) \in WhiteSpace THEN trimStart(Tail(x)) ELSE x
        t == trimStart(s)
        signed == t # <<>> /\ Head(t) \in {"+", "-"}
        sign == IF t # <<>> /\ Head(t) = "-" THEN -1 ELSE 1
        u == IF signed THEN Tail(t) ELSE t
        prefixed == Len(u) >= 2 /\ u[1] = "0" /\ u[2] \in {"x", "X"}
        z == IF prefixed THEN Tail(Tail(u)) ELSE u
    IN  IF z = <<>> \/ ~IsHex(Head(z)) THEN NaN ELSE Int2Num(sign * hexPrefix(z, 0))

\* parseBreathSensorData(buffer)
parseBreathSensorData(buffer) ==
    LET v == parseInt16(buffer)
    IN  IF v.kind = "nan" THEN NaN ELSE Int2Num(v.n - BREATH_RANGE)

RECURSIVE sumOf(_)
sumOf(arr) == IF arr = <<>> THEN 0 ELSE Head(arr).n + sumOf(Tail(arr))

\* calculateMean(arr)
calculateMean(arr) ==
    IF \E i \in 1..Len(arr) : arr[i].kind = "nan" THEN NaN
    ELSE IF Len(arr) = 0 THEN Int2Num(0)
    ELSE Frac(sumOf(arr), Len(arr))

\* a rounding that drops the fraction
roundDown(x) == IF x.kind = "nan" THEN NaN ELSE Int2Num(x.n \div x.d)

\* Math.round: to the nearest integer, a half goes up
round(x) == IF x.kind = "nan" THEN NaN ELSE Int2Num((2 * x.n + x.d) \div (2 * x.d))

\* an interpretation that divides by the whole range, whatever the dead zone
interpretWholeRange(sensorValue, dz, calibrationMean) ==
    IF sensorValue.kind = "nan" \/ calibrationMean.kind = "nan" THEN NaN
    ELSE LET dzN == dz[1] * 2048
             dzD == dz[2]
             v == sensorValue.n - calibrationMean.n
             inZone == v * dzD > -dzN /\ v * dzD < dzN
             num == IF inZone THEN 0 ELSE v * dzD - dzN * Sign(v)
             den == BREATH_RANGE * dzD
         IN  IF num > den THEN Int2Num(1)
             ELSE IF num < -den THEN Int2Num(-1)
             ELSE Frac(num, den)

\* an interpretation that does not subtract the dead zone from the values outside it
interpretNoSmoothing(sensorValue, dz, calibrationMean) ==
    IF sensorValue.kind = "nan" \/ calibrationMean.kind = "nan" THEN NaN
    ELSE LET dzN == dz[1] * 2048
             dzD == dz[2]
             v == sensorValue.n - calibrationMean.n
             inZone == v * dzD > -dzN /\ v * dzD < dzN
             num == IF inZone THEN 0 ELSE v * dzD
             den == BREATH_RANGE * dzD - dzN
         IN  IF den = 0 THEN (IF num = 0 THEN NaN ELSE Int2Num(Sign(num)))
             ELSE IF Sign(den) * num > Abs(den) THEN Int2Num(1)
             ELSE IF Sign(den) * num < -Abs(den) THEN Int2Num(-1)
             ELSE Frac(num, den)

\* interpretBreathSensorValue(sensorValue, deadZone_, calibrationMean), deadZone_ = dz[1]/dz[2]
interpretBreathSensorValue(sensorValue, dz, calibrationMean) ==
    IF sensorValue.kind = "nan" \/ calibrationMean.kind = "nan" THEN NaN
    ELSE LET dzN == dz[1] * 2048
             dzD == dz[2]
             v == sensorValue.n - calibrationMean.n
             inZone == v * dzD > -dzN /\ v * dzD < dzN
             num == IF inZone THEN 0 ELSE v * dzD - dzN * Sign(v)
             den == BREATH_RANGE * dzD - dzN
         IN  IF den = 0 THEN (IF num = 0 THEN NaN ELSE Int2Num(Sign(num)))
             ELSE IF Sign(den) * num > Abs(den) THEN Int2Num(1)
             ELSE IF Sign(den) * num < -Abs(den) THEN Int2Num(-1)
             ELSE Frac(num, den)

\* ---- sensor values and calibration -------------------------------------------------
\* calibrate() up to its await
CalibrateB(maxCommands) ==
    /\ nCommands < maxCommands
    /\ nCommands' = nCommands + 1
    /\ UNCHANGED disconnected
    /\ calibration' = [calibration EXCEPT !.samples = <<>>, !.promise = Len(calPromises) + 1]
    /\ calPromises' = Append(calPromises, "pending")
    /\ out' = <<>>
    /\ UNCHANGED <<now, readyState, device, connectPromise, connectAbortController, lastConnectAttempt,
                   gattConnection, breathValue, deadZone, tickerVars, promises, connectCalls, aborted,
                   calls, linkConnected, handlerInstalled, abandoned>>

\* a handler without the check of readyState: a late frame is handled as any other
handleNewBreathValueAlways(sensorValue) ==
    IF calibration.promise # 0
    THEN /\ calibration' = [calibration EXCEPT !.samples = Append(calibration.samples, sensorValue)]
         /\ out' = <<>>
         /\ UNCHANGED <<breathValue, calPromises>>
    ELSE /\ breathValue' = interpretBreathSensorValue(sensorValue, deadZone, calibration.mean)
         /\ out' = <<BreathEv>>
         /\ UNCHANGED <<calibration, calPromises>>

\* a handler that completes the calibration one sample late
handleNewBreathValueLate(sensorValue) ==
    IF readyState # "ready"
    THEN /\ out' = <<>>
         /\ UNCHANGED <<breathValue, calibration, calPromises>>
    ELSE IF calibration.promise # 0
    THEN LET samples == Append(calibration.samples, sensorValue)
         IN  IF Len(samples) > CALIBRATE_SAMPLES
             THEN /\ calibration' = [samples |-> samples, mean |-> round(calculateMean(samples)),
                                     promise |-> 0]
                  /\ calPromises' = Settle(calPromises, calibration.promise, "fulfilled")
                  /\ out' = IF calPromises[calibration.promise] = "pending"
                            THEN <<Resolved("calibrate", calibration.promise)>> ELSE <<>>
                  /\ UNCHANGED breathValue
             ELSE /\ calibration' = [calibration EXCEPT !.samples = samples]
                  /\ out' = <<>>
                  /\ UNCHANGED <<breathValue, calPromises>>
    ELSE /\ breathValue' = interpretBreathSensorValue(sensorValue, deadZone, calibration.mean)
         /\ out' = <<BreathEv>>
         /\ UNCHANGED <<calibration, calPromises>>

\* _handleNewBreathValue(sensorValue)
handleNewBreathValue(sensorValue) ==
    IF readyState # "ready"
    THEN /\ out' = <<>>
         /\ UNCHANGED <<breathValue, calibration, calPromises>>
    ELSE IF calibration.promise # 0
    THEN LET samples == Append(calibration.samples, sensorValue)
         IN  IF Len(samples) >= CALIBRATE_SAMPLES
             THEN /\ calibration' = [samples |-> samples, mean |-> round(calculateMean(samples)),
                                     promise |-> 0]
                  /\ calPromises' = Settle(calPromises, calibration.promise, "fulfilled")
                  /\ out' = IF calPromises[calibration.promise] = "pending"
                            THEN <<Resolved("calibrate", calibration.promise)>> ELSE <<>>
                  /\ UNCHANGED breathValue
             ELSE /\ calibration' = [calibration EXCEPT !.samples = samples]
                  /\ out' = <<>>
                  /\ UNCHANGED <<breathValue, calPromises>>
    ELSE /\ breathValue' = interpretBreathSensorValue(sensorValue, deadZone, calibration.mean)
         /\ out' = <<BreathEv>>
         /\ UNCHANGED <<calibration, calPromises>>

\* the peripheral sends at most maxSamples frames while a calibration collects samples
frameMayArrive(maxSamples) ==
    (readyState = "ready" /\ calibration.promise # 0) => Len(calibration.samples) < maxSamples

\* _melodyDataCharChange(event) for an event that carries the frame f
Frame(f) ==
    /\ handlerInstalled
    /\ frameMayArrive(MaxSamples)
    /\ handleNewBreathValue(parseBreathSensorData(f))
    /\ UNCHANGED <<now, readyState, device, connectPromise, connectAbortController, lastConnectAttempt,
                   gattConnection, deadZone, tickerVars, promises, connectCalls, aborted, calls,
                   linkConnected, handlerInstalled, nCommands, disconnected, abandoned>>

\* _melodyDataCharChange(event) for an event without a value
FrameMissing ==
    /\ handlerInstalled
    /\ out' = <<ErrEv("Error during characteristicvaluechanged", "Error")>>
    /\ UNCHANGED <<now, sessionVars, tickerVars, promiseVars, calls, linkConnected, handlerInstalled,
                   nCommands, disconnected, abandoned>>

Connect == ConnectB(MaxCommands)
Disconnect == DisconnectB(MaxCommands)
Calibrate == CalibrateB(MaxCommands)
ConnectLong == ConnectB(MaxLongCommands)
DisconnectLong == DisconnectB(MaxLongCommands)

\* the steps that no bound limits, but for the end of an execution in an AbortError
CoreSteps ==
    \/ AdvanceTime
    \/ RequestDevice
    \/ \E c \in BagToSet(calls), res \in {"fail"} \cup Devices : RequestDeviceSettle(c, res)
    \/ \E tm \in timers : TimerFire(tm)
    \/ \E t \in ticks : TickTransportFails(t)
    \/ \E t \in ticks : GattConnected(t)
    \/ \E t \in ticks : ServiceFound(t)
    \/ \E t \in ticks : CharacteristicFound(t)
    \/ \E t \in ticks : NotificationsStarted(t)
    \/ \E t \in ticks : ValueWritten(t)
    \/ LinkLost
    \/ \E c \in BagToSet(calls) : TickerStopped(c)
    \/ \E c \in BagToSet(calls), res \in {"ok", "fail", "timeout"} : DisconnectSettle(c, res)
    \/ \E f \in Frames : Frame(f)
    \/ FrameMissing

\* the steps that no bound limits
Steps == CoreSteps \/ \E t \in ticks, timedOut \in BOOLEAN : TickAborted(t, timedOut)


\* the session
Next == Steps \/ Connect \/ Disconnect \/ Calibrate

Spec == Init /\ [][Next]_vars

\* longer runs of the session in which calibrate() is not called
NextLong == Steps \/ ConnectLong \/ DisconnectLong

SpecLong == Init /\ [][NextLong]_vars
\* a caller that waits for a disconnect() to settle before it calls disconnect() again
DisconnectSeq == InFlight("disconnect") = 0 /\ DisconnectLong
NextSeq == Steps \/ ConnectLong \/ DisconnectSeq
SpecSeq == Init /\ [][NextSeq]_vars

\* ---- the session with the abandoned transport operations followed to their late results --
\* (no frames and no loss of the link)
NextLate ==
    \/ AdvanceTime
    \/ RequestDevice
    \/ \E c \in BagToSet(calls), res \in {"fail"} \cup Devices : RequestDeviceSettle(c, res)
    \/ ConnectLong
    \/ DisconnectLong
    \/ \E tm \in timers : TimerFire(tm)
    \/ \E t \in ticks, timedOut \in BOOLEAN : TickAbandons(t, timedOut)
    \/ \E a \in abandoned, ok \in BOOLEAN : LateResult(a, ok)
    \/ \E t \in ticks : TickTransportFails(t)
    \/ \E t \in ticks : GattConnected(t)
    \/ \E t \in ticks : ServiceFound(t)
    \/ \E t \in ticks : CharacteristicFound(t)
    \/ \E t \in ticks : NotificationsStarted(t)
    \/ \E t \in ticks : ValueWritten(t)
    \/ \E c \in BagToSet(calls) : TickerStopped(c)
    \/ \E c \in BagToSet(calls), res \in {"ok", "fail", "timeout"} : DisconnectSettle(c, res)

SpecLate == Init /\ [][NextLate]_vars

\* ---- a session without disconnect(), with no end of time ------------------------------
Max(a, b) == IF a >= b THEN a ELSE b

\* an instant that was noted at x, d ms later, told from the present: what lies CONNECT_DELAY
\* or more in the past is told as it was noted
Past(x, d) == IF x <= now - CONNECT_DELAY THEN x ELSE Max(x - d, now - CONNECT_DELAY)

\* d ms pass; the clock is read relative to the present, so that time has no end: the instant
\* of the last attempt and the due times of the timers move d ms into the past
TimePassesLive ==
    /\ \E d \in {TICK_DELAY, CONNECT_DELAY - TICK_DELAY} :
           /\ lastConnectAttempt' = Past(lastConnectAttempt, d)
           /\ timers' = {[tm EXCEPT !.due = Max(tm.due - d, now)] : tm \in timers}
    /\ out' = <<>>
    /\ UNCHANGED <<now, readyState, device, connectPromise, connectAbortController, gattConnection,
                   breathValue, calibration, deadZone, started, scheduleToken, timerHandle,
                   pendingTick, ticks, promiseVars, calls, linkConnected, handlerInstalled,
                   nCommands, disconnected, abandoned>>

\* the session of a caller that never calls disconnect()
NextLive ==
    \/ TimePassesLive
    \/ RequestDevice
    \/ \E c \in BagToSet(calls), res \in {"fail"} \cup Devices : RequestDeviceSettle(c, res)
    \/ Connect
    \/ \E tm \in timers : TimerFire(tm)
    \/ \E t \in ticks, timedOut \in BOOLEAN : TickAborted(t, timedOut)
    \/ \E t \in ticks : TickTransportFails(t)
    \/ \E t \in ticks : GattConnected(t)
    \/ \E t \in ticks : ServiceFound(t)
    \/ \E t \in ticks : CharacteristicFound(t)
    \/ \E t \in ticks : NotificationsStarted(t)
    \/ \E t \in ticks : ValueWritten(t)
    \/ LinkLost

\* time passes, a timer that is due fires, and each transport operation of a tick succeeds
\* in the end, however often it has failed before
FairLive ==
    /\ WF_vars(TimePassesLive)
    /\ WF_vars(\E tm \in timers : TimerFire(tm))
    /\ SF_vars(\E t \in ticks : GattConnected(t))
    /\ SF_vars(\E t \in ticks : ServiceFound(t))
    /\ SF_vars(\E t \in ticks : CharacteristicFound(t))
    /\ SF_vars(\E t \in ticks : NotificationsStarted(t))

SpecLive == Init /\ [][NextLive]_vars /\ FairLive

\* ---- what a step shows ------------------------------------------------------------
IsNotification(e) == e.ev = "readyStateChange"
\* the readyStateChange events of a step, in their order
Notifications(o) == SelectSeq(o, IsNotification)
Shows(o, e) == \E i \in 1..Len(o) : o[i] = e
\* the step reports a rejected transition of readyState
TransitionRejected(o) ==
    \E i \in 1..Len(o) : o[i].msg = InvalidTransition \/ o[i].op = InvalidTransition

\* ---- C1 -----------------------------------------------------------------------------
NineEdges ==
    { <<"no-device", "requesting-device">>, <<"requesting-device", "no-device">>,
      <<"requesting-device", "have-device">>, <<"have-device", "connecting">>,
      <<"have-device", "requesting-device">>, <<"connecting", "have-device">>,
      <<"connecting", "ready">>, <<"ready", "connecting">>, <<"ready", "have-device">> }

\* the states readyState takes in a step: the one it begins in, then the ones its
\* notifications tell of, in their order
StatesTaken(rs, o) == <<rs>> \o [i \in 1..Len(Notifications(o)) |-> Notifications(o)[i].op]

\* C1: readyState starts as no-device; every change of readyState goes along one of the
\* nine edges (a step in which a listener calls a command takes several, each along an edge);
\* a change requested along any other pair, a self-loop included, is refused (an error, no
\* notification) and leaves readyState as it was.
C1_NineEdges ==
    /\ readyState = "no-device"
    /\ [](\A o, n \in ReadyStates :
              <<o, n>> \notin NineEdges =>
                  LET u == updateReadyState(o, breathValue, n)
                  IN  ~u.ok /\ u.rs = o /\ u.evs = <<>>)
    /\ [][ /\ LET taken == StatesTaken(readyState, out')
              IN  /\ taken[Len(taken)] = readyState'
                  /\ \A i \in 1..(Len(taken) - 1) : <<taken[i], taken[i + 1]>> \in NineEdges
           /\ TransitionRejected(out') => readyState' = readyState ]_vars

\* a disconnect() has asked for have-device -> have-device and was refused
C1_Witness ==
    /\ readyState = "have-device"
    /\ Shows(out, Rejected("disconnect", 0, "GroovTubeBleError", InvalidTransition, ""))

\* ---- C2 -----------------------------------------------------------------------------
\* C2: _updateReadyState emits exactly one readyStateChange, carrying the new state, and sets
\* breathValue to null when it makes the transition, and emits nothing when it refuses it; so
\* the notifications of a step spell the states readyState takes in it: none when readyState
\* stays untouched, else each one a change of state and the last one the state the step ends
\* in, with breathValue null.
C2_OneNotificationPerTransition ==
    /\ [](\A o, n \in ReadyStates :
              LET u == updateReadyState(o, breathValue, n)
              IN  IF u.ok THEN u.evs = <<RSC(n)>> /\ u.rs = n /\ u.bv = Null
                  ELSE u.evs = <<>> /\ u.rs = o /\ u.bv = breathValue)
    /\ [][ LET taken == StatesTaken(readyState, out')
           IN  /\ taken[Len(taken)] = readyState'
               /\ \A i \in 1..(Len(taken) - 1) : taken[i] # taken[i + 1]
               /\ Len(taken) > 1 => breathValue' = Null ]_vars

\* the tick that finds the link lost: ready -> connecting is notified (a breath value may
\* have been there before)
C2_Witness ==
    /\ readyState = "connecting"
    /\ gattConnection
    /\ out = <<RSC("connecting")>>
    /\ breathValue = Null

\* ---- C3 -----------------------------------------------------------------------------
\* the call of op was refused: one rejection with the domain error and nothing else, and the
\* session and the Ticker are as they were
Refused(op) ==
    /\ Len(out') = 1
    /\ out'[1].ev = "reject" /\ out'[1].op = op /\ out'[1].err = "GroovTubeBleError"
    /\ UNCHANGED <<readyState, device, calibration, tickerVars>>

\* canX is true in the legal states of X and nowhere else, and a call of X while canX is
\* false is refused
GuardsRefuse ==
    /\ canRequestDevice <=> readyState \in {"no-device", "have-device"}
    /\ canConnect <=> readyState = "have-device"
    /\ canDisconnect <=> readyState \in {"connecting", "ready"}
    /\ (RequestDevice /\ ~canRequestDevice) => Refused("requestDevice")
    /\ (Connect /\ ~canConnect) => Refused("connect")
    /\ (Disconnect /\ ~canDisconnect) => Refused("disconnect")

\* a requestDevice() called while an earlier requestDevice() waits for the selection is refused
SecondRequestRefused ==
    (RequestDevice /\ InFlight("requestDevice") > 0) => Refused("requestDevice")

\* C3: canX is true exactly in the legal states of X; a call of X while canX is false is
\* rejected with the domain error, changes neither readyState, the device, the calibration
\* nor the Ticker, and emits and calls nothing; a requestDevice() called while an earlier one
\* waits for the selection is refused, so that the selection is asked for once.
C3_GuardedCommands == [][GuardsRefuse /\ SecondRequestRefused]_vars

\* the part of C3 about canX alone
C3_Guards == [][GuardsRefuse]_vars

\* ---- C4 -----------------------------------------------------------------------------
RequestFails(res) == res = "fail" \/ ~HasGatt(res)

\* how a requestDevice() call ends when the selection gives res
RequestEnds(res) ==
    IF RequestFails(res)
    THEN /\ readyState' = "no-device"
         /\ \E i \in 1..Len(out') :
                /\ out'[i].ev = "reject" /\ out'[i].op = "requestDevice"
                /\ out'[i].err = "GroovTubeBleError"
                /\ res = "fail" => out'[i].cause = "TransportError"
    ELSE /\ readyState' = "have-device"
         /\ device' = res
         /\ Shows(out', Resolved("requestDevice", 0))

\* C4: while a requestDevice() waits for the selection readyState is requesting-device; when
\* the selection fails or gives a device without gatt the call rejects with the domain error
\* (the failure as its cause) and readyState is no-device; when it gives a device with gatt the
\* device is stored, the call resolves and readyState is have-device.
C4_RequestDevice ==
    [][ /\ InFlight("requestDevice") > 0 => readyState = "requesting-device"
        /\ \A c \in BagToSet(calls), res \in {"fail"} \cup Devices :
               RequestDeviceSettle(c, res) => RequestEnds(res) ]_vars

\* ---- C5 -----------------------------------------------------------------------------
\* C5: an accepted connect() leaves readyState connecting and its promise pending; while the
\* promise is pending readyState is connecting; the promise is fulfilled only in the step in
\* which startNotifications() of an attempt has resolved, which makes readyState ready; a
\* settled promise is never settled again.
C5_ConnectPromise ==
    [][ /\ (ConnectLong /\ canConnect) =>
               readyState' = "connecting" /\ connectCalls'[Len(connectCalls')] = "pending"
        /\ \A k \in DOMAIN connectCalls :
               /\ connectCalls[k] = "pending" => readyState = "connecting"
               /\ (connectCalls[k] = "pending" /\ connectCalls'[k] = "fulfilled") =>
                      /\ readyState' = "ready"
                      /\ \E t \in ticks : t.pc = "awaitNotif" /\ t \notin ticks'
                      /\ Shows(out', Resolved("connect", k))
               /\ connectCalls[k] # "pending" =>
                      /\ connectCalls'[k] = connectCalls[k]
                      /\ \A i \in 1..Len(out') : ~(out'[i].op = "connect" /\ out'[i].k = k) ]_vars

\* ---- C6 -----------------------------------------------------------------------------
\* C6: a disconnect() accepted while a connection attempt waits for gatt.connect(),
\* getPrimaryService() or getCharacteristic() rejects the pending connect() with
\* 'disconnect() has been requested'; the attempt ends with one error event whose cause is
\* the AbortError; when gatt.disconnect() resolves, the disconnect() resolves and readyState
\* is have-device.
C6_DisconnectDuringAttempt ==
    [][ /\ (DisconnectLong /\ canDisconnect /\ attemptInFlight /\ connectPromise # 0) =>
               (connectCalls[connectPromise] = "pending" =>
                    Shows(out', Rejected("connect", connectPromise, "GroovTubeBleError",
                                         "disconnect() has been requested", "")))
        /\ \A t \in ticks :
               (t.pc \in AttemptPcs /\ aborted[t.sig] /\ t \notin ticks') =>
                   out' = <<ErrEv(TickMsg, "AbortError")>>
        /\ \A c \in BagToSet(calls) :
               (c.mid /\ DisconnectSettle(c, "ok")) =>
                   Shows(out', Resolved("disconnect", 0)) /\ readyState' = "have-device" ]_vars

\* ---- C7 -----------------------------------------------------------------------------
\* the transport operations a tick calls
TickOps == {"gatt.connect", "getPrimaryService", "getCharacteristic", "startNotifications",
            "writeValueWithResponse"}

\* C7: from the step in which a disconnect() resolves up to the next accepted connect(), no
\* execution of the callback starts or goes on and none of the transport operations of a tick
\* is called.
C7_QuietAfterDisconnect ==
    [][ (disconnected /\ disconnected') =>
            /\ \A i \in 1..Len(out') : out'[i].ev = "call" => out'[i].op \notin TickOps
            /\ scheduleToken' = scheduleToken
            /\ ticks = {} /\ ticks' = {} ]_vars

\* ---- C8 -----------------------------------------------------------------------------
\* C8: whatever gatt.disconnect() does (resolve, reject, run into the deadline), the
\* disconnect() ends with readyState have-device and _gattConnection null; gatt.disconnect()
\* is called only when the Ticker has stopped: not started, no timer armed, no execution of
\* the callback in flight.
C8_DisconnectEnds ==
    [][ /\ \A c \in BagToSet(calls), res \in {"ok", "fail", "timeout"} :
               DisconnectSettle(c, res) => readyState' = "have-device" /\ ~gattConnection'
        /\ Shows(out', Call("gatt.disconnect")) =>
               ~started' /\ timers' = {} /\ ticks' = {} /\ pendingTick' = 0 ]_vars

\* ---- C9 -----------------------------------------------------------------------------
\* C9: an accepted disconnect() aborts the controller of the current connect() and settles
\* the promise of that connect() only; an accepted connect() makes a controller that has not
\* been aborted; a controller is aborted by a disconnect() of its own cycle only; an attempt
\* of a cycle that has not been aborted, once startNotifications() has resolved, makes
\* readyState ready.
C9_CancellationScope ==
    [][ /\ (DisconnectLong /\ canDisconnect /\ connectAbortController # 0) =>
               \A k \in DOMAIN aborted :
                   k # connectAbortController =>
                       /\ aborted'[k] = aborted[k]
                       /\ promises'[k] = promises[k]
                       /\ connectCalls'[k] = connectCalls[k]
        /\ (ConnectLong /\ canConnect) =>
               /\ connectAbortController' \notin DOMAIN aborted
               /\ ~aborted'[connectAbortController']
               /\ connectPromise' = connectAbortController'
               /\ promises'[connectPromise'] = "pending"
        /\ \A k \in DOMAIN aborted :
               (aborted'[k] /\ ~aborted[k]) => k = connectAbortController /\ canDisconnect
        /\ \A t \in ticks :
               (~aborted[t.sig] /\ NotificationsStarted(t)) => readyState' = "ready" ]_vars

\* ---- C10 ----------------------------------------------------------------------------
\* the steps of a connection attempt
AttemptSteps == {"awaitConnect", "awaitService", "awaitChar", "awaitNotif"}

\* the attempt t fails: its transport operation rejects or runs into its deadline
AttemptFails(t) == t.pc \in AttemptSteps /\ (TickTransportFails(t) \/ TickAborted(t, TRUE))

\* C10: when an attempt fails without a disconnect(), one error event with the failure as
\* its cause is emitted, readyState is and stays connecting, the promises of connect() are as
\* they were and the next timer of the Ticker is armed; a tick in connecting starts an
\* attempt exactly when CONNECT_DELAY has passed since the last attempt, and notes its time;
\* an accepted connect() starts an attempt in its first tick, at once.
C10_RetryAfterDelay ==
    [][ /\ \A t \in ticks :
               AttemptFails(t) =>
                   /\ Len(out') = 1 /\ out'[1].ev = "error"
                   /\ out'[1].cause \in {"TransportError", "AbortError"}
                   /\ readyState = "connecting" /\ readyState' = "connecting"
                   /\ connectCalls' = connectCalls /\ promises' = promises
                   /\ started'
                   /\ \E tm \in timers' : tm.id = timerHandle' /\ tm.due = now + TICK_DELAY
        /\ \A tm \in timers :
               (TimerFire(tm) /\ readyState = "connecting") =>
                   /\ Shows(out', Call("gatt.connect")) <=> now - lastConnectAttempt >= CONNECT_DELAY
                   /\ Shows(out', Call("gatt.connect")) => lastConnectAttempt' = now
                   /\ ~Shows(out', Call("gatt.connect")) => lastConnectAttempt' = lastConnectAttempt
        /\ (ConnectLong /\ canConnect) =>
               Shows(out', Call("gatt.connect")) /\ lastConnectAttempt' = now ]_vars

\* ---- C11 ----------------------------------------------------------------------------
\* the tick that finds the link lost: readyState is ready and the transport tells that the
\* link is not connected
LinkLossSeen == readyState = "ready" /\ device # "null" /\ ~(gattConnection /\ linkConnected)

\* C11: the tick that finds the link lost while readyState is ready makes readyState
\* connecting and calls no transport operation; a tick in connecting after that starts an
\* attempt (one gatt.connect()) exactly when CONNECT_DELAY has passed since the last
\* attempt; when the steps of that reconnection attempt have all succeeded, readyState is
\* ready again.
C11_ReconnectAfterLinkLoss ==
    [][ /\ \A tm \in timers :
               (TimerFire(tm) /\ LinkLossSeen) =>
                   /\ readyState' = "connecting"
                   /\ out' = <<RSC("connecting")>>
                   /\ ticks' = ticks
        /\ \A tm \in timers :
               (TimerFire(tm) /\ readyState = "connecting" /\ gattConnection) =>
                   /\ Shows(out', Call("gatt.connect")) <=> now - lastConnectAttempt >= CONNECT_DELAY
                   /\ Len(SelectSeq(out', LAMBDA e : e = Call("gatt.connect"))) <= 1
        /\ \A t \in ticks :
               (t.re /\ ~aborted[t.sig] /\ NotificationsStarted(t)) => readyState' = "ready" ]_vars

\* ---- C12 ----------------------------------------------------------------------------
\* C12: in a session without disconnect(), with fair ticks and transport operations that
\* succeed in the end: whenever readyState is connecting it becomes ready, a pending
\* connect() is fulfilled, and while readyState is connecting the Ticker is alive (an
\* execution of the callback is in flight or the next timer is armed), so that attempts go on.
C12_ReconnectsInTheEnd ==
    /\ (readyState = "connecting") ~> (readyState = "ready")
    /\ (Len(connectCalls) >= 1 /\ connectCalls[Len(connectCalls)] = "pending")
           ~> (Len(connectCalls) >= 1 /\ connectCalls[Len(connectCalls)] = "fulfilled")
    /\ [](readyState = "connecting" => started /\ (ticks # {} \/ timers # {}))

\* readyState is ready again after an attempt has failed and the link has been lost
C12_Witness ==
    /\ readyState = "ready"
    /\ gattConnection /\ linkConnected
    /\ connectCalls = <<"fulfilled">>
    /\ out = <<RSC("ready")>>

\* ---- C13 ----------------------------------------------------------------------------
\* the steps of an attempt that INIT_DEADLINE bounds
InitPcs == {"awaitService", "awaitChar", "awaitNotif"}

\* C13: when getPrimaryService(), getCharacteristic() or startNotifications() of an attempt
\* runs into INIT_DEADLINE, the execution ends with one error event whose cause is the
\* AbortError, readyState is and stays connecting and the next timer is armed (a new attempt
\* follows); the late result of an abandoned operation emits and calls nothing, starts no
\* further step and changes neither readyState nor a promise of connect(); gatt.connect()
\* never runs into a deadline.
C13_InitDeadline ==
    [][ /\ \A t \in ticks :
               (t.pc \in InitPcs /\ TickAbandons(t, TRUE)) =>
                   /\ out' = <<ErrEv(TickMsg, "AbortError")>>
                   /\ readyState = "connecting" /\ readyState' = "connecting"
                   /\ started'
                   /\ \E tm \in timers' : tm.id = timerHandle' /\ tm.due = now + TICK_DELAY
        /\ \A a \in abandoned, ok \in BOOLEAN :
               LateResult(a, ok) =>
                   /\ out' = <<>>
                   /\ UNCHANGED <<readyState, ticks, timers, promises, connectCalls, gattConnection,
                                  handlerInstalled>>
        /\ \A t \in ticks : t.pc = "awaitConnect" => ~TickAbandons(t, TRUE) ]_vars

\* ---- C14 ----------------------------------------------------------------------------
\* the writes of REQUEST_BREATH a step calls
Writes(o) == SelectSeq(o, LAMBDA e : e = Call("writeValueWithResponse"))

\* the sensor-read request of execution t fails or runs into WRITE_VALUE_DEADLINE
WriteFails(t) == t.pc = "awaitWrite" /\ (TickTransportFails(t) \/ TickAborted(t, TRUE))

\* C14: a tick that begins with readyState ready and the link connected calls
\* writeValueWithResponse() once and nothing else; a tick that begins in another state, finds
\* the link lost or makes a connection attempt calls it not at all (the first tick of
\* connect() included); when the write fails or runs into WRITE_VALUE_DEADLINE, one error
\* event is emitted, readyState is ready afterwards and the next timer is armed.
C14_PollEveryTick ==
    [][ /\ \A tm \in timers :
               TimerFire(tm) =>
                   IF readyState = "ready" /\ gattConnection /\ linkConnected
                   THEN out' = <<Call("writeValueWithResponse")>>
                   ELSE Writes(out') = <<>>
        /\ ConnectLong => Writes(out') = <<>>
        /\ \A t \in ticks :
               WriteFails(t) =>
                   /\ Len(out') = 1 /\ out'[1].ev = "error"
                   /\ out'[1].cause \in {"TransportError", "AbortError"}
                   /\ readyState' = "ready"
                   /\ started'
                   /\ \E tm \in timers' : tm.id = timerHandle' /\ tm.due = now + TICK_DELAY ]_vars

\* ---- C16 ----------------------------------------------------------------------------
\* the session with a peripheral that also sends malformed frames
NextSense == Next \/ \E f \in MalformedFrames : Frame(f)
SpecSense == Init /\ [][NextSense]_vars

FrameError == ErrEv("Error during characteristicvaluechanged", "Error")

\* C16: a frame that is missing or malformed gives exactly one error event and nothing else: no
\* breath event, no sample, no change of breathValue, readyState or the rest of the session.
C16_BadFrameIsAnError ==
    [][ (FrameMissing \/ \E f \in MalformedFrames : Frame(f)) =>
            /\ out' = <<FrameError>>
            /\ UNCHANGED <<sessionVars, tickerVars, promiseVars>> ]_vars

\* ---- calibration to its end -------------------------------------------------------------
\* the frame of a sensor at rest, a little off the middle of the range
SteadyFrame == <<"8", "4", "0">>
\* the frames the peripheral sends in a session with a calibration: the middle of the range
\* and the sensor at rest
CalFrames == {<<"8", "0", "0">>, SteadyFrame}

\* while a calibration collects samples the sensor is at rest but for its first maxVaried readings
steadyAfter(maxVaried, f) ==
    (readyState = "ready" /\ calibration.promise # 0 /\ Len(calibration.samples) >= maxVaried)
        => f = SteadyFrame

\* _melodyDataCharChange(event) for an event that carries the frame f, any number of them
\* per calibration
FrameCal(f) ==
    /\ handlerInstalled
    /\ steadyAfter(MaxVaried, f)
    /\ handleNewBreathValue(parseBreathSensorData(f))
    /\ UNCHANGED <<now, readyState, device, connectPromise, connectAbortController, lastConnectAttempt,
                   gattConnection, deadZone, tickerVars, promises, connectCalls, aborted, calls,
                   linkConnected, handlerInstalled, nCommands, disconnected, abandoned>>

\* a session whose transport operations succeed, with link losses, in which the caller calls
\* connect() and calibrate() and never disconnect()
NextCalB(maxCommands, frames) ==
    \/ AdvanceTime
    \/ RequestDevice
    \/ \E c \in BagToSet(calls), res \in {"fail"} \cup Devices : RequestDeviceSettle(c, res)
    \/ ConnectB(maxCommands)
    \/ CalibrateB(maxCommands)
    \/ \E tm \in timers : TimerFire(tm)
    \/ \E t \in ticks : GattConnected(t)
    \/ \E t \in ticks : ServiceFound(t)
    \/ \E t \in ticks : CharacteristicFound(t)
    \/ \E t \in ticks : NotificationsStarted(t)
    \/ \E t \in ticks : ValueWritten(t)
    \/ LinkLost
    \/ \E f \in frames : FrameCal(f)

NextCal == NextCalB(MaxCalCommands, CalFrames)
SpecCal == Init /\ [][NextCal]_vars

\* the same with one more command and a sensor at rest
NextRecal == NextCalB(MaxRecalCommands, {SteadyFrame})
SpecRecal == Init /\ [][NextRecal]_vars

\* ---- C17 ----------------------------------------------------------------------------
\* a frame arrives in ready
FrameInReady == readyState = "ready" /\ \E f \in CalFrames : FrameCal(f)
\* the frame that arrives is the last sample of the pending calibration
CompletingFrame ==
    FrameInReady /\ calibration.promise # 0 /\ Len(calibration.samples) = CALIBRATE_SAMPLES - 1

\* C17: a future of calibrate() resolves only in the step that collects the 50th sample of its
\* calibration, and that step leaves no future of calibrate() pending; while a calibration is
\* pending a frame in ready becomes a sample, with no breath event and breathValue unchanged;
\* with no calibration pending a frame in ready gives a breath event.
C17_ResolvesAtFiftiethSample ==
    [][ /\ \A k \in 1..Len(calPromises) :
              Shows(out', Resolved("calibrate", k)) => (CompletingFrame /\ calibration.promise = k)
        /\ CompletingFrame =>
              /\ Shows(out', Resolved("calibrate", calibration.promise))
              /\ \A k \in 1..Len(calPromises) : calPromises'[k] # "pending"
        /\ \A f \in CalFrames :
              (readyState = "ready" /\ FrameCal(f)) =>
                  IF calibration.promise # 0
                  THEN /\ calibration'.samples = Append(calibration.samples, parseBreathSensorData(f))
                       /\ ~Shows(out', BreathEv)
                       /\ UNCHANGED breathValue
                  ELSE /\ out' = <<BreathEv>>
                       /\ UNCHANGED calibration ]_vars

\* ---- C18 ----------------------------------------------------------------------------
\* the event 'calibrationStateChange' with its argument isCalibrating
CalibrationStateChange(isCalibrating) ==
    Ev("calibrationStateChange", IF isCalibrating THEN "true" ELSE "false", "", "", "", 0)

\* C18: calibrate() emits calibrationStateChange(true), the step that completes a calibration
\* emits calibrationStateChange(false), and no other step emits either.
C18_CalibrationStateNotified ==
    [][ /\ CalibrateB(MaxCalCommands) => Shows(out', CalibrationStateChange(TRUE))
        /\ CompletingFrame => Shows(out', CalibrationStateChange(FALSE))
        /\ Shows(out', CalibrationStateChange(TRUE)) => CalibrateB(MaxCalCommands)
        /\ Shows(out', CalibrationStateChange(FALSE)) => CompletingFrame ]_vars

\* ---- C19 ----------------------------------------------------------------------------
\* m is the integer nearest to total / count (a half goes up)
NearestToMean(m, total, count) ==
    /\ 2 * count * m <= 2 * total + count
    /\ 2 * total + count < 2 * count * (m + 1)

\* v lies inside the dead zone dz[1]/dz[2] of the range
InDeadZone(v, dz) == Abs(v) * dz[2] < dz[1] * BREATH_RANGE

\* C19: the step that completes a calibration sets the offset to the integer nearest to the mean
\* of the 50 samples, whatever it was; a later reading gives a breath value relative to that
\* offset: 0 inside the dead zone around the offset (so for a reading equal to the offset),
\* and a value of the sign of the reading minus the offset outside it.
C19_OffsetIsRoundedMean ==
    [][ /\ CompletingFrame =>
              /\ Len(calibration'.samples) = CALIBRATE_SAMPLES
              /\ calibration'.mean.kind = "num" /\ calibration'.mean.d = 1
              /\ NearestToMean(calibration'.mean.n, sumOf(calibration'.samples), CALIBRATE_SAMPLES)
        /\ \A f \in CalFrames :
              (readyState = "ready" /\ calibration.promise = 0 /\ FrameCal(f)) =>
                  LET v == parseBreathSensorData(f).n - calibration.mean.n
                  IN  /\ breathValue'.kind = "num"
                      /\ InDeadZone(v, deadZone) <=> breathValue'.n = 0
                      /\ Sign(breathValue'.n) \in {0, Sign(v)} ]_vars

\* a calibration has completed with 49 readings at rest and one at the low end of the range:
\* the mean 62.72 has become the offset 63
C19_Witness ==
    /\ calibration.promise = 0
    /\ Len(calibration.samples) = CALIBRATE_SAMPLES
    /\ calibration.mean = Int2Num(63)
    /\ calPromises = <<"fulfilled">>
    /\ out = <<Resolved("calibrate", 1)>>

\* ---- C20 ----------------------------------------------------------------------------
\* a step of the reconnection path: the session has been connected before, the caller has not
\* called disconnect(), and readyState is not ready before or after the step
ReconnectStep ==
    /\ gattConnection
    /\ ~disconnected
    /\ readyState # "ready" \/ readyState' # "ready"
    /\ readyState \in {"ready", "connecting"}
    /\ readyState' \in {"ready", "connecting"}

\* C20: a step of the reconnection path other than a calibrate() call leaves the samples, the
\* pending promise of the calibration and the offset as they are, and settles no future of
\* calibrate(); the frame that brings the samples to 50, counted before and after the
\* reconnection, resolves the pending future.
C20_ReconnectKeepsCalibration ==
    [][ /\ (ReconnectStep /\ ~CalibrateB(MaxCalCommands)) => UNCHANGED <<calibration, calPromises>>
        /\ CompletingFrame =>
              /\ Shows(out', Resolved("calibrate", calibration.promise))
              /\ calPromises'[calibration.promise] = "fulfilled" ]_vars

\* a reconnection has reached ready again with a calibration pending that holds the samples
\* collected before the link was lost
C20_Witness ==
    /\ readyState = "ready"
    /\ out = <<RSC("ready")>>
    /\ connectCalls = <<"fulfilled">>
    /\ calibration.promise # 0
    /\ Len(calibration.samples) = MaxVaried + 1

\* ---- C15 ----------------------------------------------------------------------------
\* C15: a frame that arrives while readyState is not ready is ignored: the step emits and
\* settles nothing and leaves breathValue, the calibration (its samples, its mean, its pending
\* promise) and readyState as they were.
C15_LateFrameIgnored ==
    [][ \A f \in Frames :
            (Frame(f) /\ readyState # "ready") =>
                /\ out' = <<>>
                /\ UNCHANGED <<breathValue, calibration, calPromises, readyState>> ]_vars

\* a frame has arrived after a disconnect(), while a calibrate() called since then is pending
C15_Witness ==
    /\ readyState = "have-device"
    /\ handlerInstalled
    /\ calibration.promise # 0
    /\ calibration.samples = <<>>
    /\ disconnected
    /\ out = <<>>

\* ---- C21 ----------------------------------------------------------------------------
\* the rejection of the future k of calibrate() with a 'Calibration aborted' error
AbortedEv(k, reason) ==
    Rejected("calibrate", k, "GroovTubeBleError", "Calibration aborted: " \o reason, "")

\* a command that aborts calibrations has passed its state check, with the reason it gives
AcceptedAbort(reason) ==
    \/ reason = "disconnect() has been called" /\ canDisconnect /\ Disconnect
    \/ reason = "requestDevice() has been called" /\ canRequestDevice /\ RequestDevice

AbortReasons == {"disconnect() has been called", "requestDevice() has been called"}

\* an accepted disconnect() or requestDevice() rejects the future of the pending calibration
\* with a 'Calibration aborted' error and leaves no samples and no pending calibration;
\* disconnect() keeps the offset
AbortsPending ==
    \A reason \in AbortReasons :
        (AcceptedAbort(reason) /\ calibration.promise # 0) =>
            /\ Shows(out', AbortedEv(calibration.promise, reason))
            /\ calPromises'[calibration.promise] = "rejected"
            /\ calibration'.samples = <<>>
            /\ calibration'.promise = 0
            /\ reason = "disconnect() has been called" => calibration'.mean = calibration.mean

\* C21: an accepted disconnect() or requestDevice() rejects the pending future of calibrate()
\* with a 'Calibration aborted' error, discards the samples and leaves no calibration pending
\* (no future of calibrate() is pending after the step); disconnect() keeps the offset.
C21_AbortOnDisconnect ==
    [][ /\ AbortsPending
        /\ \A reason \in AbortReasons :
              AcceptedAbort(reason) => \A k \in 1..Len(calPromises) : calPromises'[k] # "pending" ]_vars

\* the same for the calibration the instance refers to only
C21_AbortsCurrent == [][AbortsPending]_vars

\* ---- C22 ----------------------------------------------------------------------------
\* a session with a sensor at rest in which a calibration can complete and the caller can
\* disconnect and request a device again; attempts can fail
NextReset ==
    \/ NextCalB(MaxResetCommands, {SteadyFrame})
    \/ DisconnectB(MaxResetCommands)
    \/ \E c \in BagToSet(calls) : TickerStopped(c)
    \/ \E c \in BagToSet(calls), res \in {"ok", "fail", "timeout"} : DisconnectSettle(c, res)
    \/ \E t \in ticks : TickTransportFails(t)

SpecReset == Init /\ [][NextReset]_vars

\* the selection of requestDevice() has produced a peripheral with a gatt server
DeviceSelected ==
    \E c \in BagToSet(calls), res \in Devices : HasGatt(res) /\ RequestDeviceSettle(c, res)

\* the step completes a calibration and sets the offset to the rounded mean of its samples
OffsetSet ==
    /\ CompletingFrame
    /\ calibration'.mean.kind = "num" /\ calibration'.mean.d = 1
    /\ NearestToMean(calibration'.mean.n, sumOf(calibration'.samples), CALIBRATE_SAMPLES)

\* C22: the offset starts at 0; a step changes it only if it completes a calibration (to the
\* rounded mean) or if it is the selection of a peripheral by requestDevice() (to 0).
C22_OffsetChanges ==
    /\ calibration.mean = Int2Num(0)
    /\ [][ calibration'.mean # calibration.mean =>
              \/ OffsetSet
              \/ DeviceSelected /\ calibration'.mean = Int2Num(0) ]_vars

\* C22 as amended: the offset starts at 0; the step that completes a calibration sets it to the
\* rounded mean, an accepted requestDevice() call sets it to 0 at the call, and every other
\* step (the result of the selection included) leaves it as it is.
C22_OffsetResetAtRequest ==
    /\ calibration.mean = Int2Num(0)
    /\ [][ IF CompletingFrame THEN OffsetSet
           ELSE IF canRequestDevice /\ RequestDevice THEN calibration'.mean = Int2Num(0)
           ELSE calibration'.mean = calibration.mean ]_vars

\* requestDevice() has been accepted after a calibration had completed with the offset 64
\* and the offset is 0
C22_Witness ==
    /\ readyState = "requesting-device"
    /\ Shows(out, RSC("requesting-device"))
    /\ calPromises = <<"fulfilled">>
    /\ Len(calibration.samples) = 0
    /\ calibration.mean = Int2Num(0)

\* ---- C23 ----------------------------------------------------------------------------
\* an error value that the library delivers: the rejection of a command or an 'error' event
Delivered(e) == e.ev = "reject" \/ e.ev = "error"

\* the messages of the errors that wrap a failure
WrappingMsgs == {"requestDevice(): Failed to request device", TickMsg,
                 "Error during characteristicvaluechanged"}

\* C23: every error value delivered by the last step, as the rejection of a command or to the
\* error listeners, is a GroovTubeBleError, with the failure it wraps as its cause.
C23_OnlyDomainErrors ==
    \A i \in 1..Len(out) :
        Delivered(out[i]) =>
            /\ out[i].err = "GroovTubeBleError"
            /\ out[i].msg \in WrappingMsgs => out[i].cause # ""

\* ---- C24 ----------------------------------------------------------------------------
\* C24: breathValue is null whenever readyState is not ready; a step gives it a new value
\* other than null only by handling a frame in ready with no calibration pending; and after
\* every step that changes readyState or emits readyStateChange it is null.
C24_BreathValueOnlyInReady ==
    /\ [](readyState # "ready" => breathValue = Null)
    /\ [][ /\ (breathValue' # breathValue /\ breathValue' # Null) =>
                  (readyState = "ready" /\ calibration.promise = 0 /\ \E f \in Frames : Frame(f))
           /\ (readyState' # readyState \/ Notifications(out') # <<>>) => breathValue' = Null ]_vars

\* a frame has been handled in ready and breathValue holds its value
C24_Witness ==
    /\ readyState = "ready"
    /\ breathValue # Null
    /\ out = <<BreathEv>>

\* ---- the Ticker -------------------------------------------------------------------------
NextPrompt ==
    IF StopContinues
    THEN \/ RequestDevice
         \/ ConnectLong
         \/ DisconnectLong
         \/ \E c \in BagToSet(calls) : TickerStopped(c)
    ELSE NextLong

SpecPrompt == Init /\ [][NextPrompt]_vars

\* the executions of the callback that the step starts and that are in flight after it
Begun == {t \in ticks' : \A u \in ticks : u.token # t.token}

\* ---- C25 ----------------------------------------------------------------------------
\* C25: at most one execution of the callback is in flight and no timer is armed while one is;
\* an execution begins only with none in flight, in start() or when a timer fires that is
\* due; and a timer is armed for TICK_DELAY after the step in which the execution settled.
C25_NoOverlap ==
    /\ [](Cardinality(ticks) + Cardinality(timers) <= 1)
    /\ [][ /\ Begun # {} =>
                  /\ ticks = {}
                  /\ \/ ~started /\ started'
                     \/ \E tm \in timers : now >= tm.due /\ TimerFire(tm)
           /\ \A tm \in timers' \ timers :
                  /\ tm.due = now' + TICK_DELAY
                  /\ timerHandle' = tm.id
                  /\ ticks' = {} ]_vars

\* an execution is in flight that began when a timer fired, TICK_DELAY or more after the
\* one before had settled
C25_Witness ==
    /\ Cardinality(ticks) = 1
    /\ timers = {}
    /\ started
    /\ now > StartTime
    /\ \E t \in ticks : t.pc = "awaitWrite" /\ t.token = pendingTick

\* ---- a Ticker of its own ----------------------------------------------------------------
\* The Ticker with a callback that returns a promise the caller settles, as in its tests.
\* The caller calls start() and stop() in any order, also in one synchronous run; the
\* continuation of a stop() that waits for nothing is a microtask, which runs before the
\* clock advances, a timer fires or the promise of a callback settles.

\* a wrapped callback that lets a rejection through
callbackRethrows(res) == IF res = "fail" THEN "rejected" ELSE "fulfilled"

\* this.callback of the constructor: the promise it returns for a callback that resolves
\* ("ok") or rejects ("fail"); the catch block swallows the rejection
callback(res) == "fulfilled"

\* an execution of the callback that has not settled
Execution(tk) == [token |-> tk, pc |-> "callback", sig |-> 0, re |-> FALSE]
\* a stop() at its await of the pending tick p
StopAt(p) == CallAt("stop", "awaitStop", p, FALSE, FALSE)
StartThrew == Ev("throw", "start", "Error", "Ticker has already been started", "", 0)
\* the promise that the caller's callback returned resolves ("ok") or rejects ("fail")
Settled(res) == IF res = "fail" THEN Rejected("callback", 0, "Error", "", "") ELSE Resolved("callback", 0)

\* _schedule(): a new token, the callback is called, its then() is the pending tick
schedule ==
    LET tk == Fresh(LiveTokens)
    IN  /\ scheduleToken' = tk
        /\ ticks' = ticks \cup {Execution(tk)}
        /\ pendingTick' = tk

\* start()
TickerStart ==
    /\ nCommands < MaxTickerCommands
    /\ nCommands' = nCommands + 1
    /\ IF started
       THEN /\ out' = <<StartThrew>>
            /\ UNCHANGED tickerVars
       ELSE /\ started' = TRUE
            /\ schedule
            /\ out' = <<Call("callback")>>
            /\ UNCHANGED <<timers, timerHandle>>
    /\ UNCHANGED <<now, sessionVars, promiseVars, calls, linkConnected, handlerInstalled, disconnected,
                   abandoned>>

\* a stop() that does not keep the Ticker started while it waits
TickerStopAtOnce ==
    /\ nCommands < MaxTickerCommands
    /\ nCommands' = nCommands + 1
    /\ scheduleToken' = Fresh(LiveTokens)
    /\ timers' = {tm \in timers : tm.id # timerHandle}
    /\ timerHandle' = 0
    /\ started' = FALSE
    /\ calls' = calls (+) SetToBag({StopAt(pendingTick)})
    /\ out' = <<>>
    /\ UNCHANGED <<now, sessionVars, pendingTick, ticks, promiseVars, linkConnected,
                   handlerInstalled, disconnected, abandoned>>

\* a stop() that does not wait for the pending tick
TickerStopNoWait ==
    /\ nCommands < MaxTickerCommands
    /\ nCommands' = nCommands + 1
    /\ scheduleToken' = Fresh(LiveTokens)
    /\ timers' = {tm \in timers : tm.id # timerHandle}
    /\ timerHandle' = 0
    /\ calls' = calls (+) SetToBag({StopAt(0)})
    /\ out' = <<>>
    /\ UNCHANGED <<now, sessionVars, started, pendingTick, ticks, promiseVars, linkConnected,
                   handlerInstalled, disconnected, abandoned>>

\* stop() up to its await
TickerStop ==
    /\ nCommands < MaxTickerCommands
    /\ nCommands' = nCommands + 1
    /\ scheduleToken' = Fresh(LiveTokens)
    /\ timers' = {tm \in timers : tm.id # timerHandle}
    /\ timerHandle' = 0
    /\ calls' = calls (+) SetToBag({StopAt(pendingTick)})
    /\ out' = <<>>
    /\ UNCHANGED <<now, sessionVars, started, pendingTick, ticks, promiseVars, linkConnected,
                   handlerInstalled, disconnected, abandoned>>

\* stop() after its await
StopResumes(c) ==
    /\ BagIn(c, calls) /\ c = StopAt(0)
    /\ pendingTick' = 0
    /\ started' = FALSE
    /\ calls' = calls (-) SetToBag({c})
    /\ out' = <<Resolved("stop", 0)>>
    /\ UNCHANGED <<now, sessionVars, scheduleToken, timerHandle, timers, ticks, promiseVars,
                   linkConnected, handlerInstalled, nCommands, disconnected, abandoned>>

\* the calls after the pending tick tk has settled: a stop() that awaits it goes on (how ==
\* "fulfilled") or rejects
stopsAfter(tk, how) ==
    LET n == CopiesIn(StopAt(tk), calls)
    IN  IF n = 0 THEN calls
        ELSE (calls (-) [c \in {StopAt(tk)} |-> n])
             (+) (IF how = "fulfilled" THEN [c \in {StopAt(0)} |-> n] ELSE EmptyBag)

\* the timer fires: _schedule()
TickerTimerFire(tm) ==
    /\ tm \in timers
    /\ now >= tm.due
    /\ timers' = timers \ {tm}
    /\ timerHandle' = IF timerHandle = tm.id THEN 0 ELSE timerHandle
    /\ schedule
    /\ out' = <<Call("callback")>>
    /\ UNCHANGED <<now, sessionVars, started, promiseVars, calls, linkConnected, handlerInstalled,
                   nCommands, disconnected, abandoned>>

\* a then() of _schedule that arms the next timer whatever the token
CallbackSettlesAnyToken(t, res) ==
    /\ t \in ticks /\ t.pc = "callback"
    /\ ticks' = ticks \ {t}
    /\ calls' = stopsAfter(t.token, "fulfilled")
    /\ timerHandle' = Fresh(LiveTimers)
    /\ timers' = timers \cup {[id |-> Fresh(LiveTimers), due |-> now + TICK_DELAY]}
    /\ pendingTick' = IF pendingTick = t.token THEN 0 ELSE pendingTick
    /\ out' = <<Settled(res)>>
    /\ UNCHANGED <<now, sessionVars, started, scheduleToken, promiseVars, linkConnected,
                   handlerInstalled, nCommands, disconnected, abandoned>>

\* the promise of the callback settles (res): the then() of _schedule arms the next timer
\* if the token is still its own; if the wrapped callback rejected there is no then(), the
\* pending tick is a rejected promise and nothing handles it
CallbackSettles(t, res) ==
    /\ t \in ticks /\ t.pc = "callback"
    /\ ticks' = ticks \ {t}
    /\ calls' = stopsAfter(t.token, callback(res))
    /\ IF callback(res) = "fulfilled"
       THEN /\ IF t.token = scheduleToken
               THEN /\ timerHandle' = Fresh(LiveTimers)
                    /\ timers' = timers \cup {[id |-> Fresh(LiveTimers), due |-> now + TICK_DELAY]}
               ELSE UNCHANGED <<timers, timerHandle>>
            /\ pendingTick' = IF pendingTick = t.token THEN 0 ELSE pendingTick
            /\ out' = <<Settled(res)>>
       ELSE /\ UNCHANGED <<timers, timerHandle, pendingTick>>
            /\ out' = <<Settled(res), Ev("unhandledrejection", "", "Error", "", "", 0)>>
                      \o [i \in 1..CopiesIn(StopAt(t.token), calls) |-> Rejected("stop", 0, "Error", "", "")]
    /\ UNCHANGED <<now, sessionVars, started, scheduleToken, promiseVars, linkConnected,
                   handlerInstalled, nCommands, disconnected, abandoned>>

StopQueued == BagIn(StopAt(0), calls)

NextTicker ==
    IF StopQueued
    THEN \/ TickerStart
         \/ TickerStop
         \/ \E c \in BagToSet(calls) : StopResumes(c)
    ELSE \/ TickerStart
         \/ TickerStop
         \/ AdvanceTime
         \/ \E tm \in timers : TickerTimerFire(tm)
         \/ \E t \in ticks, res \in {"ok", "fail"} : CallbackSettles(t, res)

SpecTicker == Init /\ [][NextTicker]_vars

\* a stop() has been called and has not resolved
StopPending == \E c \in BagToSet(calls) : c.op = "stop"

\* ---- C26 ----------------------------------------------------------------------------
\* C26: start() throws 'Ticker has already been started' whenever the Ticker is running
\* (started, an execution of the callback in flight or a timer armed, which is so while a
\* stop() waits for an execution); the start() that throws calls no callback and leaves
\* the Ticker and the pending stop() calls as they were; start() on a stopped Ticker calls
\* the callback in the same step.
C26_StartOnlyOnce ==
    [][ TickerStart =>
          IF started \/ ticks # {} \/ timers # {}
          THEN /\ out' = <<StartThrew>>
               /\ Begun = {}
               /\ UNCHANGED <<tickerVars, calls>>
          ELSE /\ started'
               /\ out' = <<Call("callback")>>
               /\ Cardinality(Begun) = 1
               /\ pendingTick' = scheduleToken'
               /\ now' = now /\ timers' = {} ]_vars

\* start() has thrown while a stop() waits for the execution in flight
C26_Witness ==
    /\ out = <<StartThrew>>
    /\ started
    /\ \E c \in BagToSet(calls) : c.op = "stop" /\ c.p # 0 /\ \E t \in ticks : t.token = c.p

\* ---- C27 ----------------------------------------------------------------------------
\* C27: a stop() called while an execution of the callback is in flight waits for that
\* execution, and while it waits (whatever time has passed) the execution has not settled and
\* the Ticker is started; started is false after the step in which a stop() resolves, and
\* started becomes false in no other step.
C27_StopWaits ==
    /\ [][ (TickerStop /\ ticks # {}) =>
              \E t \in ticks : CopiesIn(StopAt(t.token), calls') = CopiesIn(StopAt(t.token), calls) + 1 ]_vars
    /\ [](\A c \in BagToSet(calls) : (c.op = "stop" /\ c.p # 0) =>
              started /\ \E t \in ticks : t.token = c.p)
    /\ [][ (Shows(out', Resolved("stop", 0)) => ~started')
           /\ (started /\ ~started' => out' = <<Resolved("stop", 0)>>) ]_vars

\* a stop() still waits for the execution in flight, many intervals after it was called
C27_Witness ==
    /\ started
    /\ now >= StartTime + 2 * TICK_DELAY
    /\ \E t \in ticks : BagIn(StopAt(t.token), calls)
    /\ timers = {}

\* ---- C28 ----------------------------------------------------------------------------
\* C28: from the call of stop() on no timer is armed (the armed one is cleared by the call,
\* and the execution in flight arms none when it settles) and no execution of the callback
\* begins but in a start(); after stop() has resolved, and until start() is called, no
\* execution is in flight and no timer is armed; an execution begins only in start() or when
\* a timer of the started Ticker fires.
C28_StoppedIsQuiet ==
    /\ []((StopPending \/ ~started) => timers = {})
    /\ [][ (Shows(out', Resolved("stop", 0)) \/ (~started /\ ~TickerStart)) =>
              (~started' /\ ticks' = {} /\ timers' = {}) ]_vars
    /\ [][ /\ Begun # {} => (TickerStart \/ (started /\ ~StopPending /\ \E tm \in timers : TickerTimerFire(tm)))
           /\ TickerStop => (timers' = {} /\ timerHandle' = 0 /\ scheduleToken' # scheduleToken
                             /\ \A t \in ticks : t.token # scheduleToken') ]_vars

\* stop() has resolved after time had passed since start(): nothing is in flight or armed
C28_Witness ==
    /\ out = <<Resolved("stop", 0)>>
    /\ ~started
    /\ ticks = {} /\ timers = {}
    /\ now > StartTime
    /\ calls = EmptyBag

\* ---- C29 ----------------------------------------------------------------------------
\* C29: when the promise of the callback rejects, the Ticker surfaces nothing (no unhandled
\* rejection, no rejected stop()), stays started as it was, and its then() does what it does
\* after a callback that resolved: it arms the timer for TICK_DELAY later if the token is
\* still the one of the execution, and lets the stop() calls that wait for it go on.
C29_RejectionSwallowed ==
    [][ \A t \in ticks : CallbackSettles(t, "fail") =>
          /\ out' = <<Settled("fail")>>
          /\ started' = started
          /\ calls' = stopsAfter(t.token, "fulfilled")
          /\ IF t.token = scheduleToken
             THEN /\ \E tm \in timers' \ timers : /\ timers' = timers \cup {tm}
                                                   /\ tm.due = now + TICK_DELAY
                                                   /\ timerHandle' = tm.id
             ELSE timers' = timers /\ timerHandle' = timerHandle ]_vars

\* the callback has rejected, the Ticker is started and the next timer is armed
C29_Witness ==
    /\ out = <<Settled("fail")>>
    /\ started
    /\ ticks = {}
    /\ \E tm \in timers : tm.due = now + TICK_DELAY /\ timerHandle = tm.id

\* ---- withAbortable() of its own ----------------------------------------------------------
\* withAbortable(opts, callback) with a callback that awaits one operation. The race of a
\* call is in ticks while it is undecided (token: the promise the call returned, sig: the
\* controller of opts.signal or 0, a timer with the id of the token for opts.timeout); the
\* operation of a call that has rejected with an AbortError is in abandoned.

\* opts.timeout: undefined (-1) or a number of milliseconds
Timeouts == {-1, CONNECT_DELAY - TICK_DELAY}

\* the operation settles while the race is undecided: the call settles as the operation did,
\* and its finally block clears the timer
OperationSettles(t, res) ==
    /\ t \in ticks
    /\ ticks' = ticks \ {t}
    /\ timers' = {tm \in timers : tm.id # t.token}
    /\ promises' = Settle(promises, t.token, IF res = "ok" THEN "fulfilled" ELSE "rejected")
    /\ out' = <<IF res = "ok" THEN Resolved("withAbortable", t.token)
                ELSE Rejected("withAbortable", t.token, "TransportError", "", "")>>
    /\ UNCHANGED <<now, sessionVars, started, scheduleToken, timerHandle, pendingTick, connectCalls,
                   aborted, calPromises, calls, linkConnected, handlerInstalled, nCommands, disconnected,
                   abandoned>>

\* withAbortable({timeout, signal}, callback): the listener and the timer are set up, the
\* callback starts the operation; with a signal that has fired already the race is decided
\* at once and the finally block clears the timer. sig = Len(aborted) + 1 is the signal of
\* a new controller.
WithAbortable(sig, timeout) ==
    /\ nCommands < MaxAbortableCalls
    /\ nCommands' = nCommands + 1
    /\ LET k == Len(promises) + 1
           fired == sig \in 1..Len(aborted) /\ aborted[sig]
           op == [token |-> k, pc |-> "awaitOp", sig |-> sig, re |-> FALSE]
       IN  /\ aborted' = IF sig = Len(aborted) + 1 THEN Append(aborted, FALSE) ELSE aborted
           /\ promises' = Append(promises, IF fired THEN "rejected" ELSE "pending")
           /\ ticks' = IF fired THEN ticks ELSE ticks \cup {op}
           /\ abandoned' = IF fired THEN abandoned \cup {op} ELSE abandoned
           /\ timers' = IF ~fired /\ timeout >= 0
                        THEN timers \cup {[id |-> k, due |-> now + timeout]} ELSE timers
           /\ out' = <<Call("operation")>>
                     \o (IF fired THEN <<Rejected("withAbortable", k, "AbortError", "Operation aborted", "")>>
                         ELSE <<>>)
    /\ UNCHANGED <<now, sessionVars, started, scheduleToken, timerHandle, pendingTick, connectCalls,
                   calPromises, calls, linkConnected, handlerInstalled, disconnected>>

\* controller.abort(): handleAbort of every undecided race on this signal rejects its call, in
\* the order of the calls; the operations go on
SignalFires(k) ==
    /\ k \in 1..Len(aborted) /\ ~aborted[k]
    /\ aborted' = [aborted EXCEPT ![k] = TRUE]
    /\ LET W == {t \in ticks : t.sig = k}
           nth(i) == CHOOSE t \in W : Cardinality({u \in W : u.token < t.token}) = i - 1
       IN  /\ ticks' = ticks \ W
           /\ abandoned' = abandoned \cup W
           /\ timers' = {tm \in timers : \A t \in W : tm.id # t.token}
           /\ promises' = [i \in 1..Len(promises) |->
                              IF \E t \in W : t.token = i THEN "rejected" ELSE promises[i]]
           /\ out' = [i \in 1..Cardinality(W) |->
                         Rejected("withAbortable", nth(i).token, "AbortError", "Operation aborted", "")]
    /\ UNCHANGED <<now, sessionVars, started, scheduleToken, timerHandle, pendingTick, connectCalls,
                   calPromises, calls, linkConnected, handlerInstalled, nCommands, disconnected>>

\* the timer of opts.timeout fires: the call rejects, the operation goes on
TimeoutElapses(tm) ==
    /\ tm \in timers
    /\ now >= tm.due
    /\ timers' = timers \ {tm}
    /\ LET W == {t \in ticks : t.token = tm.id}
       IN  /\ ticks' = ticks \ W
           /\ abandoned' = abandoned \cup W
    /\ promises' = Settle(promises, tm.id, "rejected")
    /\ out' = <<Rejected("withAbortable", tm.id, "AbortError", "Operation aborted after timeout", "")>>
    /\ UNCHANGED <<now, sessionVars, started, scheduleToken, timerHandle, pendingTick, connectCalls,
                   aborted, calPromises, calls, linkConnected, handlerInstalled, nCommands, disconnected>>

NextAbortable ==
    \/ AdvanceTime
    \/ \E sig \in 0..(Len(aborted) + 1), timeout \in Timeouts : WithAbortable(sig, timeout)
    \/ \E k \in 1..Len(aborted) : SignalFires(k)
    \/ \E tm \in timers : TimeoutElapses(tm)
    \/ \E t \in ticks, res \in {"ok", "fail"} : OperationSettles(t, res)
    \/ \E a \in abandoned, ok \in BOOLEAN : LateResult(a, ok)

SpecAbortable == Init /\ [][NextAbortable]_vars

AbortedCall(k, msg) == Rejected("withAbortable", k, "AbortError", msg, "")

\* ---- C30 ----------------------------------------------------------------------------
\* C30: a call of withAbortable() settles once. While its race is undecided the signal has not
\* fired; the result of the operation then settles the call as the operation settled; the
\* signal firing, the timeout elapsing (not before it is due) or a signal that had fired
\* before the call reject it with an AbortError, and nothing else does; the operation of a
\* rejected call goes on, and its late result changes no promise and shows nothing.
C30_FirstSettles ==
    /\ [](\A t \in ticks : promises[t.token] = "pending" /\ ~(t.sig \in 1..Len(aborted) /\ aborted[t.sig]))
    /\ [](\A a \in abandoned : promises[a.token] = "rejected")
    /\ [][ /\ \A k \in 1..Len(promises) : promises[k] # "pending" =>
                  (promises'[k] = promises[k] /\ \A i \in 1..Len(out') : out'[i].k # k)
           /\ \A t \in ticks, res \in {"ok", "fail"} : OperationSettles(t, res) =>
                  /\ promises'[t.token] = (IF res = "ok" THEN "fulfilled" ELSE "rejected")
                  /\ out' = <<IF res = "ok" THEN Resolved("withAbortable", t.token)
                              ELSE Rejected("withAbortable", t.token, "TransportError", "", "")>>
                  /\ t \notin abandoned'
           /\ \A k \in 1..Len(aborted), t \in ticks : (SignalFires(k) /\ t.sig = k) =>
                  /\ promises'[t.token] = "rejected"
                  /\ Shows(out', AbortedCall(t.token, "Operation aborted"))
                  /\ t \in abandoned'
           /\ \A tm \in timers, t \in ticks : (TimeoutElapses(tm) /\ t.token = tm.id) =>
                  /\ now >= tm.due
                  /\ promises'[t.token] = "rejected"
                  /\ out' = <<AbortedCall(t.token, "Operation aborted after timeout")>>
                  /\ t \in abandoned'
           /\ \A sig \in 1..Len(aborted), timeout \in Timeouts : (WithAbortable(sig, timeout) /\ aborted[sig]) =>
                  /\ promises' = Append(promises, "rejected")
                  /\ out' = <<Call("operation"), AbortedCall(Len(promises'), "Operation aborted")>>
                  /\ timers' = timers
                  /\ \E a \in abandoned' : a.token = Len(promises')
           /\ \A a \in abandoned, ok \in BOOLEAN : LateResult(a, ok) =>
                  (promises' = promises /\ out' = <<>> /\ ticks' = ticks)
           /\ (\E i \in 1..Len(out') : out'[i].err = "AbortError") =>
                  \/ \E k \in 1..Len(aborted) : SignalFires(k)
                  \/ \E tm \in timers : TimeoutElapses(tm)
                  \/ \E sig \in 1..Len(aborted), timeout \in Timeouts : aborted[sig] /\ WithAbortable(sig, timeout)
         ]_vars

\* a call with a signal that had fired before has rejected at once; its operation goes on
C30_Witness ==
    /\ Len(out) = 2 /\ out[1] = Call("operation") /\ out[2] = AbortedCall(Len(promises), "Operation aborted")
    /\ promises[Len(promises)] = "rejected"
    /\ \E a \in abandoned : a.token = Len(promises) /\ aborted[a.sig]

\* ---- the signal processor in the session -------------------------------------------------
\* the values the caller assigns to the deadZone property: 0, the default and 0x100 / 2048
DeadZones == {<<0, 1>>, DEFAULT_DEADZONE, <<1, 8>>}
\* the frames of the tests of the breath event, the frames next to the dead zone of 1/8, and
\* texts with a "0x", white space (a blank, a vertical tab, a no-break space) or a sign in front
SignalFrames ==
    {<<"0", "0", "0">>, <<"3", "8", "0">>, <<"4", "0", "0">>, <<"6", "f", "f">>, <<"7", "0", "0">>,
     <<"8", "0", "0">>, <<"9", "0", "0">>, <<"9", "0", "1">>, <<"c", "8", "0">>, <<"C", "0", "0">>,
     <<"1", "0", "0", "0">>, <<"0", "x", "8", "0", "0">>, <<" ", "9", "0", "0">>, <<"+", "7", "0", "0">>,
     <<"-", "8">>, <<"", "8">>, <<" ", "9", "0", "1">>}

\* groovtube.deadZone = dz
SetDeadZone(dz) ==
    /\ deadZone # dz
    /\ deadZone' = dz
    /\ out' = <<>>
    /\ UNCHANGED <<now, readyState, device, connectPromise, connectAbortController, lastConnectAttempt,
                   gattConnection, breathValue, calibration, tickerVars, promiseVars, calls,
                   linkConnected, handlerInstalled, nCommands, disconnected, abandoned>>

\* a session that connects and then receives frames under each dead zone
NextSignal ==
    \/ RequestDevice
    \/ \E c \in BagToSet(calls), res \in Devices : RequestDeviceSettle(c, res)
    \/ Connect
    \/ \E t \in ticks : GattConnected(t)
    \/ \E t \in ticks : ServiceFound(t)
    \/ \E t \in ticks : CharacteristicFound(t)
    \/ \E t \in ticks : NotificationsStarted(t)
    \/ \E dz \in DeadZones : SetDeadZone(dz)
    \/ \E f \in SignalFrames : Frame(f)

SpecSignal == Init /\ [][NextSignal]_vars

\* the step handles a frame with the sensor value sv (the frame value less BREATH_RANGE) under
\* the dead zone dz and offset 0 into the breath value v
Interprets(sv, dz, v) ==
    \A f \in SignalFrames :
        (/\ Frame(f) /\ readyState = "ready" /\ calibration.promise = 0
         /\ parseBreathSensorData(f) = Int2Num(sv) /\ deadZone = dz /\ calibration.mean = Int2Num(0))
        => (breathValue' = v /\ out' = <<BreathEv>>)

\* ---- C31 ----------------------------------------------------------------------------
\* C31: as stated, interpretBreathSensorValue gives -1 for (0, 0.025, 0), 0 for (1024, 0, 0)
\* and 1 for (2048, 0, 0).
C31_InterpretAsStated ==
    [][ /\ Interprets(0, DEFAULT_DEADZONE, Int2Num(-1))
        /\ Interprets(1024, <<0, 1>>, Int2Num(0))
        /\ Interprets(2048, <<0, 1>>, Int2Num(1)) ]_vars

\* C31: amended, for the sensor value between -2048 and 2048 that the function takes:
\* interpretBreathSensorValue gives 0 for (0, 0.025, 0), 1/2 for (1024, 0, 0) and 1 for
\* (2048, 0, 0); it gives -1 for (-2048, 0.025, 0), 0 for (0, 0, 0) and -1 for (-2048, 0, 0).
C31_InterpretValues ==
    [][ /\ Interprets(0, DEFAULT_DEADZONE, Int2Num(0))
        /\ Interprets(1024, <<0, 1>>, Frac(1, 2))
        /\ Interprets(2048, <<0, 1>>, Int2Num(1))
        /\ Interprets(-2048, DEFAULT_DEADZONE, Int2Num(-1))
        /\ Interprets(0, <<0, 1>>, Int2Num(0))
        /\ Interprets(-2048, <<0, 1>>, Int2Num(-1)) ]_vars

\* the frame '000' has been handled under the default dead zone into the breath value -1
C31_Witness ==
    /\ readyState = "ready"
    /\ deadZone = DEFAULT_DEADZONE
    /\ calibration.mean = Int2Num(0)
    /\ breathValue = Int2Num(-1)
    /\ out = <<BreathEv>>

\* ---- C32 ----------------------------------------------------------------------------
\* C32: under the dead zone 0x100 / 2048 and offset 0 every frame from '700' to '900' is
\* interpreted as 0, the frames '700', '800' and '900' are handled into the breath value 0,
\* '000' into -1, '1000' into 1, '380' into -1/2 and 'c80' into 1/2, and the frames next to
\* the band, '6ff' and '901', into -1/1792 and 1/1792.
C32_DeadZoneBand ==
    /\ [](LET hex3(n) == <<HexDigits[(n \div 256) + 1], HexDigits[((n \div 16) % 16) + 1],
                           HexDigits[(n % 16) + 1]>>
          IN  \A n \in (7 * 256)..(9 * 256) :
                 interpretBreathSensorValue(parseBreathSensorData(hex3(n)), <<1, 8>>, Int2Num(0)) = Int2Num(0))
    /\ [][ /\ Interprets(-256, <<1, 8>>, Int2Num(0))
           /\ Interprets(0, <<1, 8>>, Int2Num(0))
           /\ Interprets(256, <<1, 8>>, Int2Num(0))
           /\ Interprets(-2048, <<1, 8>>, Int2Num(-1))
           /\ Interprets(2048, <<1, 8>>, Int2Num(1))
           /\ Interprets(-1152, <<1, 8>>, Frac(-1, 2))
           /\ Interprets(1152, <<1, 8>>, Frac(1, 2))
           /\ Interprets(-257, <<1, 8>>, Frac(-1, 1792))
           /\ Interprets(257, <<1, 8>>, Frac(1, 1792)) ]_vars

\* a frame has been handled into the breath value 0 under the dead zone 0x100 / 2048
C32_Witness ==
    /\ readyState = "ready"
    /\ deadZone = <<1, 8>>
    /\ calibration.mean = Int2Num(0)
    /\ breathValue = Int2Num(0)
    /\ out = <<BreathEv>>

\* ---- C33 ----------------------------------------------------------------------------
\* C33: at most one future that calibrate() returned is unsettled.
C33_OnePendingCalibration ==
    Cardinality({k \in 1..Len(calPromises) : calPromises[k] = "pending"}) <= 1

\* ---- C34 ----------------------------------------------------------------------------
\* C34: the samples never number more than CALIBRATE_SAMPLES; the step in which they come to
\* number CALIBRATE_SAMPLES is a frame handled in ready that also sets the offset to the
\* rounded mean, resolves the future of the pending calibration and clears calibration.promise;
\* a sample is added only by a frame in ready while calibration.promise is set, and only
\* calibrate() sets calibration.promise.
C34_SamplesBounded ==
    /\ [](Len(calibration.samples) <= CALIBRATE_SAMPLES)
    /\ [][ /\ (Len(calibration'.samples) = CALIBRATE_SAMPLES /\ Len(calibration.samples) # CALIBRATE_SAMPLES) =>
                  /\ OffsetSet
                  /\ calPromises[calibration.promise] = "pending"
                  /\ calPromises'[calibration.promise] = "fulfilled"
                  /\ Shows(out', Resolved("calibrate", calibration.promise))
                  /\ calibration'.promise = 0
           /\ Len(calibration'.samples) > Len(calibration.samples) =>
                  /\ calibration.promise # 0
                  /\ FrameInReady
                  /\ Len(calibration'.samples) = Len(calibration.samples) + 1
           /\ (calibration'.promise # 0 /\ calibration'.promise # calibration.promise) =>
                  (CalibrateB(MaxResetCommands) /\ calibration'.samples = <<>>) ]_vars

\* a calibration has just completed with CALIBRATE_SAMPLES samples of the sensor at rest
C34_Witness ==
    /\ Len(calibration.samples) = CALIBRATE_SAMPLES
    /\ calibration.promise = 0
    /\ calibration.mean = Int2Num(64)
    /\ \E k \in 1..Len(calPromises) : out = <<Resolved("calibrate", k)>> /\ calPromises[k] = "fulfilled"

\* ---- C35 ----------------------------------------------------------------------------
\* C35: as stated: whenever no calibration is pending (calibration.promise is not set) the
\* samples are empty.
C35_SamplesEmptyWhenIdle == calibration.promise = 0 => calibration.samples = <<>>

\* C35: as amended: whenever no calibration is pending the samples are empty or are the
\* CALIBRATE_SAMPLES samples of the calibration that completed last; the completing frame keeps
\* them, calibrate() and an abort empty them, and otherwise the samples change only by a frame
\* handled in ready appending one sample while calibration.promise is set.
C35_SamplesWhenIdle ==
    /\ [](calibration.promise = 0 => Len(calibration.samples) \in {0, CALIBRATE_SAMPLES})
    /\ [][ /\ CompletingFrame =>
                  (calibration'.promise = 0 /\ Len(calibration'.samples) = CALIBRATE_SAMPLES)
           /\ (calibration.promise # 0 /\ calibration'.promise # calibration.promise /\ ~CompletingFrame) =>
                  calibration'.samples = <<>>
           /\ calibration'.samples # calibration.samples =>
                  \/ calibration'.samples = <<>>
                  \/ /\ FrameInReady
                     /\ calibration.promise # 0
                     /\ \E x \in 1..Len(calibration'.samples) :
                           calibration'.samples = Append(calibration.samples, calibration'.samples[x]) ]_vars

\* a breath value is handled while the samples of the completed calibration are still held
C35_Witness ==
    /\ calibration.promise = 0
    /\ Len(calibration.samples) = CALIBRATE_SAMPLES
    /\ out = <<BreathEv>>

\* ---- C36 ----------------------------------------------------------------------------
\* C36: no step reports a rejected transition of readyState: no command is rejected with, and
\* no tick emits an error of, 'Invalid transition of readyState'.
C36_NoRejectedTransition == ~TransitionRejected(out)

\* ---- C37 ----------------------------------------------------------------------------
\* C37: while readyState is no-device, requesting-device or have-device the Ticker is stopped:
\* no tick is executing and no timer is armed.
C37_TickerOnlyInCycle ==
    readyState \in {"no-device", "requesting-device", "have-device"} => (ticks = {} /\ timers = {})

\* ---- C38 ----------------------------------------------------------------------------
\* C38: while a promise returned by connect() is pending, readyState is connecting and the
\* Ticker is started.
C38_PendingConnectIsConnecting ==
    \A k \in 1..Len(connectCalls) :
        connectCalls[k] = "pending" => (readyState = "connecting" /\ started)

\* ---- C39 ----------------------------------------------------------------------------
\* C39: while a disconnect() is in flight (it was called in connecting or ready, has aborted the
\* signal of the cycle and has not yet settled) no step makes readyState ready and no step
\* emits readyStateChange('ready').
C39_NoReadyDuringDisconnect ==
    [][ (\E c \in BagToSet(calls) : c.op = "disconnect") =>
            /\ (readyState' = "ready" => readyState = "ready")
            /\ ~Shows(out', RSC("ready")) ]_vars

\* ---- C40 ----------------------------------------------------------------------------
\* Listeners of readyStateChange that call a command. The notification is delivered inside
\* _updateReadyState, so the command of the listener runs up to its first await (or to its
\* refusal) in the middle of the step that changes readyState.

\* the rejection of command cmd, called while readyState rs does not allow it
refusal(cmd, rs) ==
    IF cmd = "requestDevice"
    THEN Rejected("requestDevice", 0, "GroovTubeBleError",
                  "requestDevice(): Already got a device or busy requesting one", "")
    ELSE IF cmd = "connect"
    THEN Rejected("connect", 0, "GroovTubeBleError",
                  IF rs = "no-device" THEN "connect(): Must call requestDevice() first"
                  ELSE "connect(): Invalid state", "")
    ELSE Rejected("disconnect", 0, "GroovTubeBleError", "disconnect(): Invalid state", "")

\* connect() called in 'have-device', up to its await: _device is dev, _gattConnection is set or
\* not (re), and promises, Ticker and clock are the ones of the state the step began in. What it
\* leaves behind and what it emits.
connectSync(dev, re) ==
    LET u == updateReadyState("have-device", Null, "connecting")
        k == Len(promises) + 1
        tk == Fresh(LiveTokens)
        s == tickSyncOn(dev, u.rs, u.bv, 0, k, now)
    IN  IF started
        THEN \* Ticker.start() throws
             [rs |-> u.rs, bv |-> u.bv, last |-> 0, ctl |-> k, call |-> "rejected",
              token |-> scheduleToken, pending |-> pendingTick, ticks |-> ticks, timers |-> timers,
              handle |-> timerHandle,
              evs |-> u.evs \o <<Rejected("connect", k, "Error", "Ticker has already been started", "")>>]
        ELSE \* Ticker.start() and the first _schedule()
             [rs |-> s.rs, bv |-> s.bv, last |-> s.last, ctl |-> k, call |-> "pending",
              token |-> tk, pending |-> scheduledPending(tk, s),
              ticks |-> IF s.pc = "done" THEN ticks
                        ELSE ticks \cup {[token |-> tk, pc |-> s.pc, sig |-> s.sig, re |-> re]},
              timers |-> scheduledTimers(timers, timerHandle, s),
              handle |-> scheduledHandle(timers, timerHandle, s),
              evs |-> u.evs \o s.evs]

\* connect() called with a listener that calls command cmd when it is told 'connecting'. The
\* notification comes before connect() has made its AbortController, so a disconnect() runs up
\* to its first await (or to the TypeError of abort() on undefined) on the controller that is
\* stored at that moment; connect() then goes on to its own await. requestDevice() and
\* connect() are refused in 'connecting'.
ConnectNotified(cmd) ==
    /\ canConnect
    /\ nCommands < MaxLongCommands
    /\ nCommands' = nCommands + 1
    /\ disconnected' = FALSE
    /\ IF cmd = "disconnect"
       THEN
       LET u == updateReadyState(readyState, breathValue, "connecting")
           old == connectAbortController
           k == Len(promises) + 1
           tk == Fresh(LiveTokens)
           s == tickSync(u.rs, u.bv, 0, k, now)
           \* Ticker.stop() of the listener's disconnect() up to its await
           stopped == old # 0
           tms == IF stopped THEN {tm \in timers : tm.id # timerHandle} ELSE timers
           th == IF stopped THEN 0 ELSE timerHandle
           devs == IF old = 0 THEN <<Rejected("disconnect", 0, "TypeError", "", "")>>
                   ELSE rejectConnectEvs(old) \o abortCalibrationEvs(calibration, "disconnect() has been called")
       IN  /\ connectPromise' = k
           /\ connectAbortController' = k
           /\ promises' = Append(IF stopped THEN rejectConnect(old) ELSE promises, "pending")
           /\ aborted' = Append(IF stopped THEN [aborted EXCEPT ![old] = TRUE] ELSE aborted, FALSE)
           /\ calibration' = IF stopped THEN abortCalibration(calibration, FALSE) ELSE calibration
           /\ calPromises' = IF stopped THEN Settle(calPromises, calibration.promise, "rejected") ELSE calPromises
           /\ calls' = IF stopped
                       THEN calls (+) SetToBag({CallAt("disconnect", "awaitStop", pendingTick, FALSE,
                                                       attemptInFlight)})
                       ELSE calls
           /\ IF started
              THEN \* Ticker.start() throws
                   /\ connectCalls' = Append(IF stopped THEN rejectConnectCalls(old) ELSE connectCalls, "rejected")
                   /\ readyState' = u.rs
                   /\ breathValue' = u.bv
                   /\ lastConnectAttempt' = 0
                   /\ scheduleToken' = IF stopped THEN tk ELSE scheduleToken
                   /\ timers' = tms
                   /\ timerHandle' = th
                   /\ out' = u.evs \o devs \o <<Rejected("connect", k, "Error",
                                                           "Ticker has already been started", "")>>
                   /\ UNCHANGED <<started, pendingTick, ticks>>
              ELSE \* Ticker.start() and the first _schedule()
                   /\ connectCalls' = Append(IF stopped THEN rejectConnectCalls(old) ELSE connectCalls, "pending")
                   /\ started' = TRUE
                   /\ scheduleToken' = tk
                   /\ pendingTick' = scheduledPending(tk, s)
                   /\ ticks' = scheduledTicks(tk, s)
                   /\ timers' = scheduledTimers(tms, th, s)
                   /\ timerHandle' = scheduledHandle(tms, th, s)
                   /\ readyState' = s.rs
                   /\ breathValue' = s.bv
                   /\ lastConnectAttempt' = s.last
                   /\ out' = u.evs \o devs \o s.evs
       ELSE
       LET r == connectSync(device, gattConnection)
       IN  /\ readyState' = r.rs
           /\ breathValue' = r.bv
           /\ lastConnectAttempt' = r.last
           /\ connectPromise' = r.ctl
           /\ connectAbortController' = r.ctl
           /\ promises' = Append(promises, "pending")
           /\ aborted' = Append(aborted, FALSE)
           /\ connectCalls' = Append(connectCalls, r.call)
           /\ started' = TRUE
           /\ scheduleToken' = r.token
           /\ pendingTick' = r.pending
           /\ ticks' = r.ticks
           /\ timers' = r.timers
           /\ timerHandle' = r.handle
           /\ out' = <<Head(r.evs), refusal(cmd, "connecting")>> \o Tail(r.evs)
           /\ UNCHANGED <<calibration, calPromises, calls>>
    /\ UNCHANGED <<now, device, gattConnection, deadZone, linkConnected, handlerInstalled, abandoned>>

\* requestDevice() up to its await, with a listener that calls command cmd when it is told
\* 'requesting-device': the command is refused inside _updateReadyState, before
\* bluetooth.requestDevice() is called
RequestDeviceNotified(cmd) ==
    /\ canRequestDevice
    /\ LET u == updateReadyState(readyState, breathValue, "requesting-device")
           ab == abortCalibrationEvs(calibration, "requestDevice() has been called")
       IN  /\ device' = "null"
           /\ calibration' = abortCalibration(calibration, TRUE)
           /\ calPromises' = Settle(calPromises, calibration.promise, "rejected")
           /\ readyState' = u.rs
           /\ breathValue' = u.bv
           /\ out' = ab \o u.evs \o <<refusal(cmd, "requesting-device"), Call("bluetooth.requestDevice")>>
           /\ calls' = calls (+) SetToBag({CallAt("requestDevice", "awaitDevice", 0, TRUE, FALSE)})
    /\ UNCHANGED <<now, connectPromise, connectAbortController, lastConnectAttempt, gattConnection,
                   deadZone, promises, connectCalls, aborted, tickerVars, linkConnected,
                   handlerInstalled, nCommands, disconnected, abandoned>>

\* requestDevice() after the await, with a listener that calls command cmd when it is told
\* 'no-device' or 'have-device': the command of the listener runs up to its await (or to its
\* refusal) inside _updateReadyState, before requestDevice() returns or throws
RequestDeviceSettleNotified(c, res, cmd) ==
    /\ BagIn(c, calls) /\ c.op = "requestDevice"
    /\ readyState = "requesting-device"
    /\ IF res = "fail" \/ ~HasGatt(res)
       THEN LET u == updateReadyState(readyState, breathValue, "no-device")
                v == updateReadyState(u.rs, u.bv, "requesting-device")
                thrown == IF res = "fail"
                          THEN <<Rejected("requestDevice", 0, "GroovTubeBleError",
                                          "requestDevice(): Failed to request device", "TransportError")>>
                          ELSE <<Rejected("requestDevice", 0, "GroovTubeBleError",
                                          "requestDevice(): Found device has no gatt server set", "")>>
            IN  /\ IF cmd = "requestDevice"
                   THEN /\ device' = "null"
                        /\ calibration' = abortCalibration(calibration, TRUE)
                        /\ calPromises' = Settle(calPromises, calibration.promise, "rejected")
                        /\ readyState' = v.rs
                        /\ breathValue' = v.bv
                        /\ calls' = (calls (-) SetToBag({c}))
                                     (+) SetToBag({CallAt("requestDevice", "awaitDevice", 0, TRUE, FALSE)})
                        /\ out' = u.evs \o abortCalibrationEvs(calibration, "requestDevice() has been called")
                                  \o v.evs \o <<Call("bluetooth.requestDevice")>> \o thrown
                   ELSE /\ readyState' = u.rs
                        /\ breathValue' = u.bv
                        /\ calls' = calls (-) SetToBag({c})
                        /\ out' = u.evs \o <<refusal(cmd, "no-device")>> \o thrown
                        /\ UNCHANGED <<device, calibration, calPromises>>
                /\ UNCHANGED <<connectPromise, connectAbortController, lastConnectAttempt, tickerVars,
                               promises, connectCalls, aborted, nCommands, disconnected>>
       ELSE LET u == updateReadyState(readyState, breathValue, "have-device")
                v == updateReadyState(u.rs, u.bv, "requesting-device")
                r == connectSync(res, gattConnection)
            IN  IF cmd = "connect"
                THEN /\ nCommands < MaxLongCommands
                     /\ nCommands' = nCommands + 1
                     /\ disconnected' = FALSE
                     /\ device' = res
                     /\ calls' = calls (-) SetToBag({c})
                     /\ readyState' = r.rs
                     /\ breathValue' = r.bv
                     /\ lastConnectAttempt' = r.last
                     /\ connectPromise' = r.ctl
                     /\ connectAbortController' = r.ctl
                     /\ promises' = Append(promises, "pending")
                     /\ aborted' = Append(aborted, FALSE)
                     /\ connectCalls' = Append(connectCalls, r.call)
                     /\ started' = TRUE
                     /\ scheduleToken' = r.token
                     /\ pendingTick' = r.pending
                     /\ ticks' = r.ticks
                     /\ timers' = r.timers
                     /\ timerHandle' = r.handle
                     /\ out' = u.evs \o r.evs \o <<Resolved("requestDevice", 0)>>
                     /\ UNCHANGED <<calibration, calPromises>>
                ELSE IF cmd = "requestDevice"
                THEN \* the listener's requestDevice() drops the device just stored
                     /\ device' = "null"
                     /\ calibration' = abortCalibration(calibration, TRUE)
                     /\ calPromises' = Settle(calPromises, calibration.promise, "rejected")
                     /\ readyState' = v.rs
                     /\ breathValue' = v.bv
                     /\ calls' = (calls (-) SetToBag({c}))
                                  (+) SetToBag({CallAt("requestDevice", "awaitDevice", 0, TRUE, FALSE)})
                     /\ out' = u.evs \o abortCalibrationEvs(calibration, "requestDevice() has been called")
                               \o v.evs \o <<Call("bluetooth.requestDevice"), Resolved("requestDevice", 0)>>
                     /\ UNCHANGED <<connectPromise, connectAbortController, lastConnectAttempt, tickerVars,
                                    promises, connectCalls, aborted, nCommands, disconnected>>
                ELSE /\ device' = res
                     /\ readyState' = u.rs
                     /\ breathValue' = u.bv
                     /\ calls' = calls (-) SetToBag({c})
                     /\ out' = u.evs \o <<refusal(cmd, "have-device"), Resolved("requestDevice", 0)>>
                     /\ UNCHANGED <<connectPromise, connectAbortController, lastConnectAttempt, tickerVars,
                                    promiseVars, calibration, nCommands, disconnected>>
    /\ UNCHANGED <<now, gattConnection, deadZone, linkConnected, handlerInstalled, abandoned>>

\* the Ticker's timer fires and _tick finds the link lost, with a listener that calls command
\* cmd when it is told 'connecting'. The listener runs inside the callback, before _schedule
\* stores the pending tick of this execution: the stop() of a disconnect() waits for the pending
\* tick stored before; the execution returns at once and its then() finds the token changed.
\* requestDevice() and connect() are refused in 'connecting'.
TimerFireNotified(tm, cmd) ==
    /\ tm \in timers
    /\ now >= tm.due
    /\ readyState = "ready" /\ device # "null" /\ ~(gattConnection /\ linkConnected)
    /\ LET tk == Fresh(LiveTokens)
           s == tickSync(readyState, breathValue, lastConnectAttempt, connectAbortController, now)
           th == IF timerHandle = tm.id THEN 0 ELSE timerHandle
           k == connectAbortController
       IN  /\ readyState' = s.rs
           /\ breathValue' = s.bv
           /\ lastConnectAttempt' = s.last
           /\ pendingTick' = scheduledPending(tk, s)
           /\ ticks' = scheduledTicks(tk, s)
           /\ IF cmd = "disconnect" /\ k # 0
              THEN /\ nCommands < MaxLongCommands
                   /\ nCommands' = nCommands + 1
                   /\ aborted' = [aborted EXCEPT ![k] = TRUE]
                   /\ promises' = rejectConnect(k)
                   /\ connectCalls' = rejectConnectCalls(k)
                   /\ calibration' = abortCalibration(calibration, FALSE)
                   /\ calPromises' = Settle(calPromises, calibration.promise, "rejected")
                   \* Ticker.stop(): a new token after the one of this execution
                   /\ scheduleToken' = Fresh(LiveTokens \cup {tk})
                   /\ timers' = {x \in timers \ {tm} : x.id # th}
                   /\ timerHandle' = 0
                   /\ calls' = calls (+) SetToBag({CallAt("disconnect", "awaitStop", pendingTick, FALSE,
                                                           attemptInFlight)})
                   /\ out' = s.evs \o rejectConnectEvs(k)
                             \o abortCalibrationEvs(calibration, "disconnect() has been called")
              ELSE /\ scheduleToken' = tk
                   /\ timers' = scheduledTimers(timers \ {tm}, th, s)
                   /\ timerHandle' = scheduledHandle(timers \ {tm}, th, s)
                   /\ out' = s.evs \o <<IF cmd = "disconnect" THEN Rejected("disconnect", 0, "TypeError", "", "")
                                        ELSE refusal(cmd, "connecting")>>
                   /\ UNCHANGED <<promiseVars, calibration, calls, nCommands>>
    /\ UNCHANGED <<now, device, connectPromise, connectAbortController, gattConnection, deadZone,
                   started, linkConnected, handlerInstalled, disconnected, abandoned>>

\* startNotifications() has resolved, with a listener that calls command cmd when it is told
\* 'ready'. A disconnect() runs up to the await in Ticker.stop() inside _updateReadyState, so the
\* controller is aborted and the promise of connect() rejected before _tick comes to resolve it;
\* the execution then settles, the then() of _schedule finds the token changed, and the stop()
\* that waited for this execution can go on. requestDevice() and connect() are refused in 'ready'.
NotificationsStartedNotified(t, cmd) ==
    /\ t \in ticks
    /\ t.pc = "awaitNotif"
    /\ ~aborted[t.sig]
    /\ readyState = "connecting"
    /\ connectAbortController # 0
    /\ gattConnection' = TRUE
    /\ ticks' = ticks \ {t}
    /\ pendingTick' = IF pendingTick = t.token THEN 0 ELSE pendingTick
    /\ LET u == updateReadyState(readyState, breathValue, "ready")
           k == connectAbortController
           rejected == rejectConnect(k)
           rejectedCalls == rejectConnectCalls(k)
           resolves == connectPromise # 0 /\ rejected[connectPromise] = "pending"
       IN  /\ readyState' = u.rs
           /\ breathValue' = u.bv
           /\ IF cmd = "disconnect"
              THEN /\ nCommands < MaxLongCommands
                   /\ nCommands' = nCommands + 1
                   /\ aborted' = [aborted EXCEPT ![k] = TRUE]
                   /\ promises' = Settle(rejected, connectPromise, "fulfilled")
                   /\ connectCalls' = IF resolves THEN Settle(rejectedCalls, connectPromise, "fulfilled")
                                      ELSE rejectedCalls
                   /\ calibration' = abortCalibration(calibration, FALSE)
                   /\ calPromises' = Settle(calPromises, calibration.promise, "rejected")
                   /\ scheduleToken' = Fresh(LiveTokens)
                   /\ timers' = {tm \in timers : tm.id # timerHandle}
                   /\ timerHandle' = 0
                   /\ calls' = stopsGoOn(t.token)
                                (+) SetToBag({CallAt("disconnect", "awaitStop",
                                                     IF pendingTick = t.token THEN 0 ELSE pendingTick,
                                                     FALSE, attemptInFlight)})
                   /\ out' = u.evs \o rejectConnectEvs(k)
                             \o abortCalibrationEvs(calibration, "disconnect() has been called")
                             \o (IF resolves /\ rejectedCalls[connectPromise] = "pending"
                                 THEN <<Resolved("connect", connectPromise)>> ELSE <<>>)
              ELSE /\ promises' = resolveConnect(connectPromise)
                   /\ connectCalls' = resolveConnectCalls(connectPromise)
                   /\ IF t.token = scheduleToken
                      THEN /\ timerHandle' = Fresh(LiveTimers)
                           /\ timers' = timers \cup {[id |-> Fresh(LiveTimers), due |-> now + TICK_DELAY]}
                      ELSE UNCHANGED <<timers, timerHandle>>
                   /\ calls' = stopsGoOn(t.token)
                   /\ out' = u.evs \o <<refusal(cmd, "ready")>> \o resolveConnectEvs(connectPromise)
                   /\ UNCHANGED <<nCommands, aborted, calibration, calPromises, scheduleToken>>
    /\ UNCHANGED <<now, device, connectPromise, connectAbortController, lastConnectAttempt, deadZone,
                   started, linkConnected, handlerInstalled, disconnected, abandoned>>

\* the finally block of disconnect(), with a listener that calls command cmd when it is told
\* 'have-device': connect() or requestDevice() runs up to its await inside _updateReadyState,
\* before disconnect() returns or throws; disconnect() is refused in 'have-device'
DisconnectSettleNotified(c, res, cmd) ==
    /\ BagIn(c, calls) /\ c.op = "disconnect" /\ c.pc = "awaitGatt"
    /\ res \in {"fail", "timeout"} => c.called
    /\ isReadyStateTransitionOk(readyState, "have-device")
    /\ gattConnection' = FALSE
    /\ linkConnected' = IF res = "ok" /\ c.called THEN FALSE ELSE linkConnected
    /\ LET u == updateReadyState(readyState, breathValue, "have-device")
           v == updateReadyState(u.rs, u.bv, "requesting-device")
           r == connectSync(device, FALSE)
           settled == IF res = "ok" THEN <<Resolved("disconnect", 0)>>
                      ELSE IF res = "fail" THEN <<Rejected("disconnect", 0, "TransportError", "", "")>>
                      ELSE <<Rejected("disconnect", 0, "AbortError", "", "")>>
       IN  IF cmd = "connect"
           THEN /\ nCommands < MaxLongCommands
                /\ nCommands' = nCommands + 1
                \* connect() is called before disconnect() resolves
                /\ disconnected' = (res = "ok")
                /\ calls' = calls (-) SetToBag({c})
                /\ readyState' = r.rs
                /\ breathValue' = r.bv
                /\ lastConnectAttempt' = r.last
                /\ connectPromise' = r.ctl
                /\ connectAbortController' = r.ctl
                /\ promises' = Append(promises, "pending")
                /\ aborted' = Append(aborted, FALSE)
                /\ connectCalls' = Append(connectCalls, r.call)
                /\ started' = TRUE
                /\ scheduleToken' = r.token
                /\ pendingTick' = r.pending
                /\ ticks' = r.ticks
                /\ timers' = r.timers
                /\ timerHandle' = r.handle
                /\ out' = u.evs \o r.evs \o settled
                /\ UNCHANGED <<device, calibration, calPromises>>
           ELSE IF cmd = "requestDevice"
           THEN /\ disconnected' = (disconnected \/ res = "ok")
                /\ device' = "null"
                /\ calibration' = abortCalibration(calibration, TRUE)
                /\ calPromises' = Settle(calPromises, calibration.promise, "rejected")
                /\ readyState' = v.rs
                /\ breathValue' = v.bv
                /\ calls' = (calls (-) SetToBag({c}))
                             (+) SetToBag({CallAt("requestDevice", "awaitDevice", 0, TRUE, FALSE)})
                /\ out' = u.evs \o abortCalibrationEvs(calibration, "requestDevice() has been called")
                          \o v.evs \o <<Call("bluetooth.requestDevice")>> \o settled
                /\ UNCHANGED <<connectPromise, connectAbortController, lastConnectAttempt, tickerVars,
                               promises, connectCalls, aborted, nCommands>>
           ELSE /\ disconnected' = (disconnected \/ res = "ok")
                /\ readyState' = u.rs
                /\ breathValue' = u.bv
                /\ calls' = calls (-) SetToBag({c})
                /\ out' = u.evs \o <<refusal(cmd, "have-device")>> \o settled
                /\ UNCHANGED <<device, connectPromise, connectAbortController, lastConnectAttempt,
                               tickerVars, promiseVars, calibration, nCommands>>
    /\ UNCHANGED <<now, deadZone, handlerInstalled, abandoned>>

\* the session with such listeners, whatever command each of them calls; the continuation of a
\* Ticker.stop() that waits for nothing is a microtask: before it runs, only the caller can
\* act, by a command in the same task
NextListeners ==
    IF StopContinues
    THEN \/ RequestDevice
         \/ ConnectLong
         \/ DisconnectLong
         \/ \E cmd \in {"requestDevice", "connect", "disconnect"} :
                ConnectNotified(cmd) \/ RequestDeviceNotified(cmd)
         \/ \E c \in BagToSet(calls) : TickerStopped(c)
    ELSE \/ NextLong
         \/ \E cmd \in {"requestDevice", "connect", "disconnect"} :
                \/ ConnectNotified(cmd)
                \/ RequestDeviceNotified(cmd)
                \/ \E c \in BagToSet(calls), res \in {"fail"} \cup Devices :
                       RequestDeviceSettleNotified(c, res, cmd)
                \/ \E tm \in timers : TimerFireNotified(tm, cmd)
                \/ \E t \in ticks : NotificationsStartedNotified(t, cmd)
                \/ \E c \in BagToSet(calls), res \in {"ok", "fail", "timeout"} :
                       DisconnectSettleNotified(c, res, cmd)

SpecListeners == Init /\ [][NextListeners]_vars

\* the same session with the listeners that call disconnect() when they are told 'connecting'
\* or 'ready', and requestDevice() or connect() when a request or a disconnect() settles
NextNotified ==
    IF StopContinues
    THEN \/ RequestDevice
         \/ ConnectLong
         \/ DisconnectLong
         \/ ConnectNotified("disconnect")
         \/ \E c \in BagToSet(calls) : TickerStopped(c)
    ELSE \/ NextLong
         \/ ConnectNotified("disconnect")
         \/ \E cmd \in {"requestDevice", "connect"} :
                \/ \E c \in BagToSet(calls), res \in {"fail"} \cup Devices :
                       RequestDeviceSettleNotified(c, res, cmd)
                \/ \E c \in BagToSet(calls), res \in {"ok", "fail", "timeout"} :
                       DisconnectSettleNotified(c, res, cmd)
         \/ \E tm \in timers : TimerFireNotified(tm, "disconnect")
         \/ \E t \in ticks : NotificationsStartedNotified(t, "disconnect")

SpecNotified == Init /\ [][NextNotified]_vars

\* C40: while readyState is connecting or ready an AbortController is stored and it is the one
\* of the most recent connect(); and a disconnect() that passes canDisconnect, the one of a
\* listener notified of 'connecting' included, aborts the controller of the current cycle and
\* leaves no promise of the most recent connect() pending (it rejects a pending one), without
\* a TypeError.
C40_ControllerOfCurrentCycle ==
    /\ [](readyState \in {"connecting", "ready"} =>
              (connectAbortController # 0 /\ connectAbortController = Len(aborted)))
    /\ [][ ((DisconnectLong /\ canDisconnect) \/ ConnectNotified("disconnect")) =>
               /\ connectAbortController' # 0
               /\ aborted'[connectAbortController']
               /\ connectCalls'[Len(connectCalls')] # "pending"
               /\ ~Shows(out', Rejected("disconnect", 0, "TypeError", "", "")) ]_vars
====
